---- MODULE Spec2Model ----
(***************************************************************************)
(* A model of the PMX merge engine of mmd_helper (pmxmerge.py) on top of   *)
(* the PMX document classes of pypmx.py.                                   *)
(*                                                                         *)
(* A file is kept in its parsed on-disk form: references are 0-based       *)
(* integer indices, -1 meaning "no reference".  Loading resolves indices   *)
(* to names, merging works on the loaded Models, saving maps names back to *)
(* indices of the current collections.                                     *)
(*                                                                         *)
(* Python values: None of a name field is the string "None"; a vector or   *)
(* number payload is a token <<file, position>>, None of such a field is   *)
(* <<"None">> and the empty list is << >>.                                 *)
(***************************************************************************)
EXTENDS Integers, Sequences, FiniteSets, TLC

VARIABLES
    fs,         \* the file system: path -> file content
    fs0,        \* the file system as it was when the call began (history)
    writable,   \* the set of paths open(path, 'wb') succeeds on
    args,       \* the arguments of merge_pmx_files
    pc,         \* position inside merge_pmx_files / merge_models
    path_out,   \* the local variable path_out (rewritten after the base load)
    base,       \* the local variable base (a Model, or NoModel)
    patch,      \* the local variable patch (a Model, or NoModel)
    ret,        \* how the call ended: nothing yet, a returned tuple, an exception
    opened,     \* paths opened for writing so far
    pre,        \* base as it was when merge_models was entered (history)
    at_save,    \* base as it was when save_pmx_file was entered (history)
    reloaded,   \* the Model a caller loads from path_out after the call
    elements,   \* a NamedElements instance: its list and its _name_cache
    call,       \* the last NamedElements operation: its name, arguments and
                \* the instance as it was before (history)
    err,        \* the exception the last NamedElements operation raised
    io          \* a FileWriteStream / FileReadStream pair and its header

\* The variables of a merge_pmx_files call and those of the library scenarios
mergevars ==
    <<fs, fs0, writable, args, pc, path_out, base, patch, ret, opened, pre,
      at_save, reloaded>>
libvars == <<elements, call, err, io>>
vars == <<mergevars, libvars>>

(***************************************************************************)
(* Bounds of the model.                                                    *)
(***************************************************************************)
MaxBones == 2       \* bones per document (bone scenarios)
MaxMats == 2        \* materials per document (material scenarios)
MaxNames == 2       \* elements per collection (validation scenarios)
MaxMorphs == 2      \* morphs per document (morph scenarios)
MaxSlots == 2       \* display slots per document (display scenarios)
MaxRigids == 2      \* rigid bodies per document (physics scenarios)
MaxJoints == 2      \* joints per document (physics scenarios)
MaxElems == 3
MaxFaces == 2       \* elements of a NamedElements instance (library scenarios)

None == "None"
NoneTok == <<"None">>
NoModel == [kind |-> "none"]
NoFile == [kind |-> "missing"]

Tok(F, i) == <<F, i>>

Range(s) == {s[i] : i \in DOMAIN s}

RECURSIVE SumSeq(_)
SumSeq(s) == IF s = << >> THEN 0 ELSE Head(s) + SumSeq(Tail(s))

\* All sequences over S of length 0..n
SeqsUpTo(S, n) == UNION {[1..k -> S] : k \in 0..n}

\* All sequences over S without repetition, of length lo..hi
InjSeqs(S, lo, hi) ==
    {s \in UNION {[1..k -> S] : k \in lo..hi} :
        \A i, j \in DOMAIN s : i # j => s[i] # s[j]}

(***************************************************************************)
(* The merge vocabulary.                                                   *)
(***************************************************************************)
AppendVocabulary == {"MATERIAL", "BONE", "MORPH", "PHYSICS", "DISPLAY"}
UpdateVocabulary ==
    {"MAT_GEOM", "MAT_SETTING", "BONE_LOC", "BONE_SETTING", "MORPH", "PHYSICS", "DISPLAY"}

(***************************************************************************)
(* NamedElements: a list of elements with a name -> (index, item) cache.   *)
(* The model keeps the list; the cache is recomputed from it, which is     *)
(* what _rebuild_cache does after every mutation. Positions in the model   *)
(* are 1-based, indices handed to callers are 0-based as in Python.        *)
(***************************************************************************)
\* _rebuild_cache: a later element overwrites the entry of an earlier one
CachePos(coll, name) ==
    CHOOSE i \in DOMAIN coll :
        /\ coll[i].name = name
        /\ \A j \in DOMAIN coll : coll[j].name = name => j <= i

\* NamedElements.__contains__ with a name
Contains(coll, name) == \E i \in DOMAIN coll : coll[i].name = name

\* NamedElements.index with a name (None is no name of any element)
Index(coll, name) == IF Contains(coll, name) THEN CachePos(coll, name) - 1 ELSE -1

\* NamedElements.__getitem__ with a name / get
GetByName(coll, name) == coll[CachePos(coll, name)]

\* NamedElements.name_by_index
name_by_index(coll, index) ==
    IF 0 <= index /\ index < Len(coll) THEN coll[index + 1].name ELSE None

\* NamedElements._validate_item: an empty (or None) name is rejected
ValidItem(item) == item.name # "" /\ item.name # None

\* NamedElements.__setitem__ with an int index (0-based)
SetAt(coll, index, value) == [coll EXCEPT ![index + 1] = value]

(***************************************************************************)
(* Loading: pypmx.load / Model.load and the load methods of the entities.  *)
(* role names the load ("B" for the base load, "P" for the patch load):    *)
(* Vertex and Face objects are compared by identity, so each loaded vertex *)
(* and face carries the identity <<role, position in the file>>.           *)
(***************************************************************************)
\* Vertex.load + BoneWeight.resolve_bone_references
LoadVertex(doc, role, k) ==
    [id |-> <<role, k>>,
     co |-> doc.vertices[k].co,
     bones |-> [i \in DOMAIN doc.vertices[k].bone_indices |->
                  name_by_index(doc.bones, doc.vertices[k].bone_indices[i])]]

\* Face.load: the file stores the triple in reverse order
LoadFace(doc, role, k) ==
    [id |-> <<role, k>>,
     verts |-> << <<role, doc.faces[k][3] + 1>>,
                  <<role, doc.faces[k][2] + 1>>,
                  <<role, doc.faces[k][1] + 1>> >>]

\* TextureList.__getitem__: None outside the list
TextureAt(textures, index) ==
    IF 0 <= index /\ index < Len(textures) THEN textures[index + 1] ELSE None

\* Number of faces the materials before position i own (segment_start)
RECURSIVE SegmentStart(_, _)
SegmentStart(mats, i) ==
    IF i <= 1 THEN 0 ELSE SegmentStart(mats, i - 1) + (mats[i - 1].vertex_count \div 3)

\* Python list slice lst[a:b] with 0 <= a
Slice(lst, a, b) ==
    LET hi == IF b < Len(lst) THEN b ELSE Len(lst) IN
    IF a >= hi THEN << >> ELSE [i \in 1..(hi - a) |-> lst[a + i]]

\* Material.load, then "Set faces to materials" of Model.load
LoadMaterial(doc, role, i) ==
    LET m == doc.materials[i]
        allfaces == [k \in DOMAIN doc.faces |-> LoadFace(doc, role, k)]
        start == SegmentStart(doc.materials, i)
    IN [name |-> m.name, name_e |-> m.name_e,
        diffuse |-> m.diffuse, specular |-> m.specular, shininess |-> m.shininess,
        ambient |-> m.ambient, flags |-> m.flags,
        edge_color |-> m.edge_color, edge_size |-> m.edge_size,
        texture |-> TextureAt(doc.textures, m.texture_index),
        sphere_texture |-> TextureAt(doc.textures, m.sphere_texture_index),
        sphere_texture_mode |-> m.sphere_texture_mode,
        is_shared_toon_texture |-> m.is_shared_toon_texture,
        shared_toon_texture_index |-> m.shared_toon_texture_index,
        toon_texture |-> IF m.is_shared_toon_texture THEN None
                         ELSE TextureAt(doc.textures, m.toon_texture_index),
        comment |-> m.comment,
        vertex_count |-> m.vertex_count,
        faces |-> Slice(allfaces, start, start + (m.vertex_count \div 3))]

\* IKLink.load + IKLink.resolve_bone_references
LoadIKLink(doc, l) ==
    [target |-> name_by_index(doc.bones, l.target_index),
     min_angle |-> l.min_angle, max_angle |-> l.max_angle]

\* Bone.load + Bone.resolve_bone_references. The resolved display-connection
\* bone is stored in the attribute disp_conection_bone_index (pypmx.py:1245);
\* disp_connection_bone keeps the value "" that __init__ gave it.
LoadBone(doc, i) ==
    LET b == doc.bones[i] IN
    [name |-> b.name, name_e |-> b.name_e,
     location |-> b.location,
     parent |-> name_by_index(doc.bones, b.parent_index),
     trans_order |-> b.trans_order,
     trans_after_physics |-> b.trans_after_physics,
     disp_connection_type |-> b.disp_connection_type,
     disp_connection_bone |-> "",
     disp_conection_bone_index |-> name_by_index(doc.bones, b.disp_connection_bone_index),
     disp_connection_vector |-> b.disp_connection_vector,
     is_rotatable |-> b.is_rotatable, is_movable |-> b.is_movable,
     is_visible |-> b.is_visible, is_controllable |-> b.is_controllable,
     has_add_rot |-> b.has_add_rot, has_add_loc |-> b.has_add_loc,
     add_trans_bone |-> name_by_index(doc.bones, b.add_trans_bone_index),
     add_trans_value |-> b.add_trans_value,
     fixed_axis |-> b.fixed_axis,
     local_coord |-> b.local_coord,
     ext_trans_key |-> b.ext_trans_key,
     is_ik |-> b.is_ik,
     ik_target |-> IF b.is_ik THEN name_by_index(doc.bones, b.ik_target_index) ELSE "",
     loop_count |-> b.loop_count,
     rotation_unit |-> b.rotation_unit,
     ik_links |-> [k \in DOMAIN b.ik_links |-> LoadIKLink(doc, b.ik_links[k])]]

\* Morph type discriminants (Morph.create)
IsVertexOrUV(m) == m.type_index = 1 \/ m.type_index \in 3..7

\* Morph.create + the load of the concrete morph class. A group morph offset
\* resolves its sub-morph from the morphs loaded so far (the first i-1).
LoadMorph(doc, role, i) ==
    LET m == doc.morphs[i]
        LoadOffset(o) ==
            CASE m.type_index = 0 ->
                    [morph |-> name_by_index(SubSeq(doc.morphs, 1, i - 1), o.index),
                     factor |-> o.payload]
              [] m.type_index = 2 ->
                    [owner |-> m.name, bone |-> name_by_index(doc.bones, o.index),
                     payload |-> o.payload]
              [] m.type_index = 8 ->
                    [material |-> name_by_index(doc.materials, o.index),
                     payload |-> o.payload]
              [] OTHER ->
                    [vertex |-> <<role, o.index + 1>>, offset |-> o.payload]
    IN [name |-> m.name, name_e |-> m.name_e, category |-> m.category,
        type_index |-> m.type_index,
        offsets |-> [k \in DOMAIN m.offsets |-> LoadOffset(m.offsets[k])]]

\* DisplayItem.load
LoadDisplayItem(doc, it) ==
    [disp_type |-> it.disp_type,
     name |-> IF it.disp_type = 0 THEN name_by_index(doc.bones, it.index)
              ELSE name_by_index(doc.morphs, it.index)]

\* DisplaySlot.load
LoadDisplaySlot(doc, i) ==
    LET d == doc.display_slots[i] IN
    [name |-> d.name, name_e |-> d.name_e, isSpecial |-> d.isSpecial,
     items |-> [k \in DOMAIN d.items |-> LoadDisplayItem(doc, d.items[k])]]

\* RigidBody.load
LoadRigid(doc, i) ==
    LET r == doc.rigids[i] IN
    [name |-> r.name, name_e |-> r.name_e,
     bone |-> name_by_index(doc.bones, r.bone_index), payload |-> r.payload]

\* The fields of a joint record in the order Joint._load reads them. A joint
\* record of a file whose data ends early holds only the fields before the
\* end; the fields not read keep the values of Joint.__init__, and the
\* vectors not read become (0, 0, 0) in the except branch of Joint.load.
JointFields == <<"name", "name_e", "mode", "src_index", "dst_index", "payload">>
EmptyTok == <<"">>
ZeroVectors == <<"zero">>

\* Reading the joint record runs into the end of the data (struct.error)
JointTruncated(j) == \E k \in DOMAIN JointFields : JointFields[k] \notin DOMAIN j

\* Joint.load: _load, and the except branch for a record that ends early
LoadJoint(doc, i) ==
    LET j == doc.joints[i]
        read(f) == f \in DOMAIN j
    IN [name |-> IF read("name") THEN j.name ELSE "",
        name_e |-> IF read("name_e") THEN j.name_e ELSE EmptyTok,
        mode |-> IF read("mode") THEN j.mode ELSE 0,
        src_rigid |-> IF read("src_index")
                      THEN name_by_index(doc.rigids, j.src_index) ELSE "",
        dst_rigid |-> IF read("dst_index")
                      THEN name_by_index(doc.rigids, j.dst_index) ELSE "",
        payload |-> IF read("payload") THEN j.payload ELSE ZeroVectors]

\* Joint.load re-raises the struct.error of a joint whose data ends early
\* when src_rigid or dst_rigid is None at that point
JointLoadRaises(doc, i) ==
    /\ JointTruncated(doc.joints[i])
    /\ \/ LoadJoint(doc, i).src_rigid = None
       \/ LoadJoint(doc, i).dst_rigid = None

\* Model.load
LoadModel(doc, role) ==
    [kind |-> "model",
     vertices |-> [k \in DOMAIN doc.vertices |-> LoadVertex(doc, role, k)],
     textures |-> doc.textures,
     materials |-> [i \in DOMAIN doc.materials |-> LoadMaterial(doc, role, i)],
     bones |-> [i \in DOMAIN doc.bones |-> LoadBone(doc, i)],
     morphs |-> [i \in DOMAIN doc.morphs |-> LoadMorph(doc, role, i)],
     display_slots |-> [i \in DOMAIN doc.display_slots |-> LoadDisplaySlot(doc, i)],
     rigids |-> [i \in DOMAIN doc.rigids |-> LoadRigid(doc, i)],
     joints |-> [i \in DOMAIN doc.joints |-> LoadJoint(doc, i)]]

\* The cases in which pypmx.load raises: no readable PMX file at the path, a
\* vertex index outside the vertex list (IndexError), an element without a
\* name appended to a NamedElements (ValueError of _validate_item), which
\* includes a display item whose index resolves to no name and a joint
\* whose name was not read, and the struct.error that Joint.load re-raises.
LoadRaises(file) ==
    \/ file.kind # "pmx"
    \/ \E k \in DOMAIN file.faces : \E c \in 1..3 : file.faces[k][c] >= Len(file.vertices)
    \/ \E i \in DOMAIN file.morphs :
          /\ IsVertexOrUV(file.morphs[i])
          /\ \E k \in DOMAIN file.morphs[i].offsets :
                file.morphs[i].offsets[k].index >= Len(file.vertices)
    \/ \E i \in DOMAIN file.materials : ~ValidItem(file.materials[i])
    \/ \E i \in DOMAIN file.bones : ~ValidItem(file.bones[i])
    \/ \E i \in DOMAIN file.morphs : ~ValidItem(file.morphs[i])
    \/ \E i \in DOMAIN file.display_slots :
          \/ ~ValidItem(file.display_slots[i])
          \/ \E k \in DOMAIN file.display_slots[i].items :
                ~ValidItem(LoadDisplayItem(file, file.display_slots[i].items[k]))
    \/ \E i \in DOMAIN file.rigids : ~ValidItem(file.rigids[i])
    \/ \E i \in DOMAIN file.joints :
          JointLoadRaises(file, i) \/ ~ValidItem(LoadJoint(file, i))

\* pmxmerge.load_pmx_file: any exception of pypmx.load is caught and the
\* function falls off its end, returning None
load_pmx_file(files, path, role) ==
    IF path \notin DOMAIN files \/ LoadRaises(files[path])
    THEN NoModel
    ELSE LoadModel(files[path], role)

(***************************************************************************)
(* pmxmerge.validate_elements                                              *)
(***************************************************************************)
\* Variant of check that does not keep the set of seen names: only an
\* unnamed item is reported.
check_UnnamedOnly(collection) ==
    \E i \in DOMAIN collection : ~ValidItem(collection[i])

\* check(collection): an unnamed item, or a named item whose name was seen
check(collection) ==
    LET unnamed_found == \E i \in DOMAIN collection : ~ValidItem(collection[i])
        duplicate_found ==
            \E i, j \in DOMAIN collection :
                /\ i < j
                /\ ValidItem(collection[i])
                /\ collection[i].name = collection[j].name
    IN duplicate_found \/ unnamed_found

\* True when duplicates or unnamed elements are found
validate_elements(model) ==
    \/ check(model.bones)
    \/ check(model.materials)
    \/ check(model.morphs)
    \/ check(model.display_slots)
    \/ check(model.rigids)
    \/ check(model.joints)

(***************************************************************************)
(* The loops the merge functions share.                                    *)
(***************************************************************************)
\* Variant of AppendNew without the `x.name not in coll` filter
AppendNew_Unfiltered(coll, items) == coll \o items

\* for x in (x for x in items if x.name not in coll): coll.append(x)
RECURSIVE AppendNew(_, _)
AppendNew(coll, items) ==
    IF items = << >> THEN coll
    ELSE AppendNew(IF Contains(coll, Head(items).name) THEN coll
                   ELSE Append(coll, Head(items)),
                   Tail(items))

\* for x in (x for x in items if x.name in coll):
\*     index = coll.index(x.name); coll[index] = x
RECURSIVE ReplaceSameNamed(_, _)
ReplaceSameNamed(coll, items) ==
    IF items = << >> THEN coll
    ELSE ReplaceSameNamed(IF Contains(coll, Head(items).name)
                          THEN SetAt(coll, Index(coll, Head(items).name), Head(items))
                          ELSE coll,
                          Tail(items))

(***************************************************************************)
(* pmxmerge.append_update_bones                                            *)
(***************************************************************************)
BoneLocAttributes ==
    {"location", "disp_connection_type", "disp_connection_bone", "disp_connection_vector"}

BoneSettingAttributes ==
    {"parent", "trans_order", "trans_after_physics",
     "is_rotatable", "is_movable", "is_visible", "is_controllable",
     "has_add_rot", "has_add_loc", "add_trans_bone", "add_trans_value",
     "fixed_axis", "local_coord",
     "is_ik", "ik_target", "loop_count", "rotation_unit", "ik_links"}

\* Variant of UpdatedBoneAttributes where BONE_LOC carries the parent too
UpdatedBoneAttributes_LocWithParent(update) ==
    {"name_e"}
    \cup (IF "BONE_LOC" \in update THEN BoneLocAttributes \cup {"parent"} ELSE {})
    \cup (IF "BONE_SETTING" \in update THEN BoneSettingAttributes ELSE {})

\* The attributes the update loop sets on a name-matching base bone
UpdatedBoneAttributes(update) ==
    {"name_e"}
    \cup (IF "BONE_LOC" \in update THEN BoneLocAttributes ELSE {})
    \cup (IF "BONE_SETTING" \in update THEN BoneSettingAttributes ELSE {})

\* One pass of the update loop body: b = base.bones[bone.name]; setattr ...
UpdateBone(b, bone, update) ==
    [f \in DOMAIN b |-> IF f \in UpdatedBoneAttributes(update) THEN bone[f] ELSE b[f]]

RECURSIVE UpdateBones(_, _, _)
UpdateBones(bones, items, update) ==
    IF items = << >> THEN bones
    ELSE UpdateBones(
            IF Contains(bones, Head(items).name)
            THEN SetAt(bones, Index(bones, Head(items).name),
                       UpdateBone(GetByName(bones, Head(items).name), Head(items), update))
            ELSE bones,
            Tail(items), update)

\* Variant of AppendBones without the `b.name not in base.bones` filter
AppendBones_Unfiltered(bones, items, append) ==
    IF "BONE" \in append THEN bones \o items ELSE bones

\* The bones appended when 'BONE' is in append
AppendBones(bones, items, append) ==
    IF "BONE" \in append THEN AppendNew(bones, items) ELSE bones

append_update_bones(b, p, append, update) ==
    IF "BONE" \notin append /\ "BONE_LOC" \notin update /\ "BONE_SETTING" \notin update
    THEN b
    ELSE LET appended == AppendBones(b.bones, p.bones, append)
         IN [b EXCEPT !.bones =
                IF "BONE_LOC" \in update \/ "BONE_SETTING" \in update
                THEN UpdateBones(appended, p.bones, update)
                ELSE appended]

(***************************************************************************)
(* pmxmerge.append_update_material, one operator per block of the function *)
(***************************************************************************)
\* The early return at the top of append_update_material
MaterialMergeSkipped(append, update) ==
    "MATERIAL" \notin append /\ "MAT_GEOM" \notin update /\ "MAT_SETTING" \notin update

\* Model.append_vertices, called when MATERIAL is appended or MAT_GEOM updated
MatAppendVertices(b, p, append, update) ==
    IF "MATERIAL" \in append \/ "MAT_GEOM" \in update
    THEN [b EXCEPT !.vertices = @ \o p.vertices]
    ELSE b

\* for tex in patch.textures: base.ensure_texture(tex)
RECURSIVE EnsureTextures(_, _)
EnsureTextures(textures, items) ==
    IF items = << >> THEN textures
    ELSE EnsureTextures(IF Head(items) \in Range(textures) THEN textures
                        ELSE Append(textures, Head(items)),
                        Tail(items))

MatEnsureTextures(b, p) == [b EXCEPT !.textures = EnsureTextures(@, p.textures)]

\* Append New Materials
MatAppendMaterials(b, p, append) ==
    IF "MATERIAL" \in append
    THEN [b EXCEPT !.materials = AppendNew(@, p.materials)]
    ELSE b

\* Variant of ReplaceFaces that keeps the faces the material had and adds the
\* patch material's faces behind them
RECURSIVE ReplaceFaces_Extending(_, _)
ReplaceFaces_Extending(mats, items) ==
    IF items = << >> THEN mats
    ELSE ReplaceFaces_Extending(
            IF Contains(mats, Head(items).name)
            THEN SetAt(mats, Index(mats, Head(items).name),
                       [GetByName(mats, Head(items).name)
                            EXCEPT !.faces = @ \o Head(items).faces])
            ELSE mats,
            Tail(items))

\* Model.replace_material_faces for every name-matching patch material
RECURSIVE ReplaceFaces(_, _)
ReplaceFaces(mats, items) ==
    IF items = << >> THEN mats
    ELSE ReplaceFaces(
            IF Contains(mats, Head(items).name)
            THEN SetAt(mats, Index(mats, Head(items).name),
                       [GetByName(mats, Head(items).name) EXCEPT !.faces = Head(items).faces])
            ELSE mats,
            Tail(items))

\* Update Existing Material Geometry
MatUpdateGeometry(b, p, update) ==
    IF "MAT_GEOM" \in update
    THEN [b EXCEPT !.materials = ReplaceFaces(@, p.materials)]
    ELSE b

\* The Python class Morph.create picks for a type discriminant
MorphClass(m) ==
    CASE m.type_index = 0 -> "GroupMorph"
      [] m.type_index = 1 -> "VertexMorph"
      [] m.type_index = 2 -> "BoneMorph"
      [] m.type_index = 8 -> "MaterialMorph"
      [] OTHER -> "UVMorph"

\* Append/Merge Vertex/UV Morphs
RECURSIVE MergeVertexMorphs(_, _)
MergeVertexMorphs(morphs, items) ==
    IF items = << >> THEN morphs
    ELSE LET morph == Head(items) IN
         MergeVertexMorphs(
            IF ~IsVertexOrUV(morph) THEN morphs
            ELSE IF ~Contains(morphs, morph.name) THEN Append(morphs, morph)
            ELSE LET base_morph == GetByName(morphs, morph.name) IN
                 IF MorphClass(base_morph) # MorphClass(morph)
                 THEN SetAt(morphs, Index(morphs, morph.name), morph)
                 ELSE SetAt(morphs, Index(morphs, morph.name),
                            [base_morph EXCEPT !.offsets = @ \o morph.offsets]),
            Tail(items))

MatMergeVertexMorphs(b, p) == [b EXCEPT !.morphs = MergeVertexMorphs(@, p.morphs)]

\* Variant of MatUpdateSettings that also appends the patch materials base
\* does not have
MatUpdateSettings_Appending(b, p, update) ==
    IF "MAT_SETTING" \in update
    THEN [b EXCEPT !.materials = ReplaceSameNamed(AppendNew(@, p.materials), p.materials)]
    ELSE b

\* Update existing Material Settings: base.materials[index] = mat
MatUpdateSettings(b, p, update) ==
    IF "MAT_SETTING" \in update
    THEN [b EXCEPT !.materials = ReplaceSameNamed(@, p.materials)]
    ELSE b

append_update_material(b, p, append, update) ==
    IF MaterialMergeSkipped(append, update) THEN b
    ELSE MatUpdateSettings(
            MatMergeVertexMorphs(
                MatUpdateGeometry(
                    MatAppendMaterials(
                        MatEnsureTextures(MatAppendVertices(b, p, append, update), p),
                        p, append),
                    p, update),
                p),
            p, update)

(***************************************************************************)
(* pmxmerge.append_update_morphs / append_update_physics /                 *)
(* append_update_displayitems                                              *)
(***************************************************************************)
\* Variant of NonVertexMorphs without the isinstance test
NonVertexMorphs_All(items) == items

\* The patch morphs the loops of append_update_morphs do not `continue` on
NonVertexMorphs(items) == SelectSeq(items, LAMBDA m : ~IsVertexOrUV(m))

append_update_morphs(b, p, append, update) ==
    IF "MORPH" \notin append /\ "MORPH" \notin update THEN b
    ELSE LET appended == IF "MORPH" \in append
                         THEN AppendNew(b.morphs, NonVertexMorphs(p.morphs))
                         ELSE b.morphs
         IN [b EXCEPT !.morphs =
                IF "MORPH" \in update
                THEN ReplaceSameNamed(appended, NonVertexMorphs(p.morphs))
                ELSE appended]

\* if 'PHYSICS' not in append and 'PHYSICS' not in update: return
PhysicsMergeSkipped(append, update) == "PHYSICS" \notin append /\ "PHYSICS" \notin update

\* Variant of PhysAppendRigids that appends no rigid body
PhysAppendRigids_None(b, p, append) == b

\* Append: the rigid bodies of new names
PhysAppendRigids(b, p, append) ==
    IF "PHYSICS" \in append THEN [b EXCEPT !.rigids = AppendNew(@, p.rigids)] ELSE b

\* Append: the joints of new names
PhysAppendJoints(b, p, append) ==
    IF "PHYSICS" \in append THEN [b EXCEPT !.joints = AppendNew(@, p.joints)] ELSE b

\* Update: base.rigids[index] = rigid
PhysUpdateRigids(b, p, update) ==
    IF "PHYSICS" \in update THEN [b EXCEPT !.rigids = ReplaceSameNamed(@, p.rigids)] ELSE b

\* Update: base.joints[index] = joint
PhysUpdateJoints(b, p, update) ==
    IF "PHYSICS" \in update THEN [b EXCEPT !.joints = ReplaceSameNamed(@, p.joints)] ELSE b

append_update_physics(b, p, append, update) ==
    IF PhysicsMergeSkipped(append, update) THEN b
    ELSE PhysUpdateJoints(
            PhysUpdateRigids(
                PhysAppendJoints(PhysAppendRigids(b, p, append), p, append),
                p, update),
            p, update)

\* for item in slot.items: if item not in base_slot.items: append
\* (base_slot.items is a NamedElements: membership is by item.name)
RECURSIVE AppendItems(_, _)
AppendItems(slots, patch_slots) ==
    IF patch_slots = << >> THEN slots
    ELSE LET slot == Head(patch_slots) IN
         AppendItems(
            IF Contains(slots, slot.name)
            THEN SetAt(slots, Index(slots, slot.name),
                       [GetByName(slots, slot.name) EXCEPT
                            !.items = AppendNew(@, slot.items)])
            ELSE slots,
            Tail(patch_slots))

append_update_displayitems(b, p, append, update) ==
    IF "DISPLAY" \notin append /\ "DISPLAY" \notin update THEN b
    ELSE LET appended == IF "DISPLAY" \in append
                         THEN AppendItems(AppendNew(b.display_slots, p.display_slots),
                                          p.display_slots)
                         ELSE b.display_slots
         IN [b EXCEPT !.display_slots =
                IF "DISPLAY" \in update
                THEN ReplaceSameNamed(appended, p.display_slots)
                ELSE appended]

(***************************************************************************)
(* Saving: pypmx.save / Model.save and the save methods of the entities.   *)
(* A field the file does not carry reads back as the value __init__ gives. *)
(***************************************************************************)
Default == <<"default">>

\* Model.purge_unused_textures
purge_unused_textures(m) ==
    LET tex_used ==
            UNION {{m.materials[i].texture, m.materials[i].sphere_texture,
                    m.materials[i].toon_texture} : i \in DOMAIN m.materials}
                \ {None, ""}
    IN [m EXCEPT !.textures = SelectSeq(@, LAMBDA t : t \in tex_used)]

\* The vertices some material face references
VertsUsed(m) ==
    UNION {UNION {Range(m.materials[i].faces[k].verts) : k \in DOMAIN m.materials[i].faces}
           : i \in DOMAIN m.materials}

\* Variant of purge_unused_vertices that always skips the purge
purge_unused_vertices_Skipped(m) == m

\* Model.purge_unused_vertices: skipped when as many vertices are used as the
\* model holds; otherwise the unused vertices and the Vertex/UV morph offsets
\* on vertices that are not used go
purge_unused_vertices(m) ==
    LET verts_used == VertsUsed(m) IN
    IF Cardinality(verts_used) = Len(m.vertices) THEN m
    ELSE [m EXCEPT
            !.vertices = SelectSeq(@, LAMBDA v : v.id \in verts_used),
            !.morphs = [i \in DOMAIN m.morphs |->
                          IF IsVertexOrUV(m.morphs[i])
                          THEN [m.morphs[i] EXCEPT !.offsets =
                                    SelectSeq(m.morphs[i].offsets,
                                              LAMBDA o : o.vertex \in verts_used)]
                          ELSE m.morphs[i]]]

\* Model.save up to ensure_lookup_table: the model as it is written
Purged(m) == purge_unused_vertices(purge_unused_textures(m))

\* Model.ensure_lookup_table: vert_index[v], 0-based
VertIndex(m, vid) ==
    (CHOOSE k \in DOMAIN m.vertices :
        /\ m.vertices[k].id = vid
        /\ \A j \in DOMAIN m.vertices : m.vertices[j].id = vid => j <= k) - 1

HasVertex(m, vid) == \E k \in DOMAIN m.vertices : m.vertices[k].id = vid

\* Face.save / MorphOffset.save raise KeyError for a vertex that is not in
\* vert_index; m is the purged model
SaveRaises(m) ==
    \/ \E vid \in VertsUsed(m) : ~HasVertex(m, vid)
    \/ \E i \in DOMAIN m.morphs :
          /\ IsVertexOrUV(m.morphs[i])
          /\ \E k \in DOMAIN m.morphs[i].offsets :
                ~HasVertex(m, m.morphs[i].offsets[k].vertex)

\* TextureList.index: -1 for a value that is not in the list
TextureIndex(textures, t) ==
    IF t \in Range(textures)
    THEN (CHOOSE k \in DOMAIN textures :
            textures[k] = t /\ \A j \in DOMAIN textures : textures[j] = t => k <= j) - 1
    ELSE -1

\* Vertex.save + BoneWeight.save
SaveVertex(m, v) ==
    [co |-> v.co,
     bone_indices |-> [i \in DOMAIN v.bones |-> Index(m.bones, v.bones[i])]]

\* Face.save: the triple is written in reverse order
SaveFace(m, f) ==
    <<VertIndex(m, f.verts[3]), VertIndex(m, f.verts[2]), VertIndex(m, f.verts[1])>>

RECURSIVE FlatFaces(_, _)
FlatFaces(m, i) ==
    IF i > Len(m.materials) THEN << >>
    ELSE [k \in DOMAIN m.materials[i].faces |-> SaveFace(m, m.materials[i].faces[k])]
         \o FlatFaces(m, i + 1)

\* Material.save
SaveMaterial(m, mat) ==
    [name |-> mat.name, name_e |-> mat.name_e,
     diffuse |-> mat.diffuse, specular |-> mat.specular, shininess |-> mat.shininess,
     ambient |-> mat.ambient, flags |-> mat.flags,
     edge_color |-> mat.edge_color, edge_size |-> mat.edge_size,
     texture_index |-> TextureIndex(m.textures, mat.texture),
     sphere_texture_index |-> TextureIndex(m.textures, mat.sphere_texture),
     sphere_texture_mode |-> mat.sphere_texture_mode,
     is_shared_toon_texture |-> mat.is_shared_toon_texture,
     shared_toon_texture_index |->
        IF mat.is_shared_toon_texture THEN mat.shared_toon_texture_index ELSE Default,
     toon_texture_index |->
        IF mat.is_shared_toon_texture THEN -1 ELSE TextureIndex(m.textures, mat.toon_texture),
     comment |-> mat.comment,
     vertex_count |-> Len(mat.faces) * 3]

\* IKLink.save
SaveIKLink(m, l) ==
    [target_index |-> Index(m.bones, l.target),
     min_angle |-> l.min_angle, max_angle |-> l.max_angle]

\* Bone.save: the display-connection bone written is the one named by the
\* attribute disp_conection_bone_index (pypmx.py:1287)
SaveBone(m, b) ==
    LET has_add == b.has_add_rot \/ b.has_add_loc IN
    [name |-> b.name, name_e |-> b.name_e,
     location |-> b.location,
     parent_index |-> Index(m.bones, b.parent),
     trans_order |-> b.trans_order,
     trans_after_physics |-> b.trans_after_physics,
     disp_connection_type |-> IF b.disp_connection_type = 1 THEN 1 ELSE 0,
     disp_connection_bone_index |->
        IF b.disp_connection_type = 1
        THEN Index(m.bones, b.disp_conection_bone_index) ELSE -1,
     disp_connection_vector |->
        IF b.disp_connection_type = 1 THEN << >> ELSE b.disp_connection_vector,
     is_rotatable |-> b.is_rotatable, is_movable |-> b.is_movable,
     is_visible |-> b.is_visible, is_controllable |-> b.is_controllable,
     has_add_rot |-> b.has_add_rot, has_add_loc |-> b.has_add_loc,
     add_trans_bone_index |-> IF has_add THEN Index(m.bones, b.add_trans_bone) ELSE -1,
     add_trans_value |-> IF has_add THEN b.add_trans_value ELSE Default,
     fixed_axis |-> b.fixed_axis,
     local_coord |-> b.local_coord,
     ext_trans_key |-> b.ext_trans_key,
     is_ik |-> b.is_ik,
     ik_target_index |-> IF b.is_ik THEN Index(m.bones, b.ik_target) ELSE -1,
     loop_count |-> IF b.is_ik THEN b.loop_count ELSE Default,
     rotation_unit |-> IF b.is_ik THEN b.rotation_unit ELSE Default,
     ik_links |-> IF b.is_ik
                  THEN [k \in DOMAIN b.ik_links |-> SaveIKLink(m, b.ik_links[k])]
                  ELSE << >>]

\* Morph.save and the save of the offset classes
SaveMorph(m, morph) ==
    LET SaveOffset(o) ==
            CASE morph.type_index = 0 ->
                    [index |-> Index(m.morphs, o.morph), payload |-> o.factor]
              [] morph.type_index = 2 ->
                    [index |-> Index(m.bones, o.bone), payload |-> o.payload]
              [] morph.type_index = 8 ->
                    [index |-> Index(m.materials, o.material), payload |-> o.payload]
              [] OTHER ->
                    [index |-> VertIndex(m, o.vertex), payload |-> o.offset]
    IN [name |-> morph.name, name_e |-> morph.name_e, category |-> morph.category,
        type_index |-> morph.type_index,
        offsets |-> [k \in DOMAIN morph.offsets |-> SaveOffset(morph.offsets[k])]]

\* DisplaySlot.save + DisplayItem.save
SaveDisplaySlot(m, d) ==
    [name |-> d.name, name_e |-> d.name_e, isSpecial |-> d.isSpecial,
     items |-> [k \in DOMAIN d.items |->
                  [disp_type |-> d.items[k].disp_type,
                   index |-> IF d.items[k].disp_type = 0
                             THEN Index(m.bones, d.items[k].name)
                             ELSE Index(m.morphs, d.items[k].name)]]]

\* RigidBody.save
SaveRigid(m, r) ==
    [name |-> r.name, name_e |-> r.name_e,
     bone_index |-> Index(m.bones, r.bone), payload |-> r.payload]

\* Joint.save
SaveJoint(m, j) ==
    [name |-> j.name, name_e |-> j.name_e, mode |-> j.mode,
     src_index |-> Index(m.rigids, j.src_rigid),
     dst_index |-> Index(m.rigids, j.dst_rigid),
     payload |-> j.payload]

\* The file Model.save writes for the purged model m
SaveDoc(m) ==
    [kind |-> "pmx",
     vertices |-> [k \in DOMAIN m.vertices |-> SaveVertex(m, m.vertices[k])],
     faces |-> FlatFaces(m, 1),
     textures |-> m.textures,
     materials |-> [i \in DOMAIN m.materials |-> SaveMaterial(m, m.materials[i])],
     bones |-> [i \in DOMAIN m.bones |-> SaveBone(m, m.bones[i])],
     morphs |-> [i \in DOMAIN m.morphs |-> SaveMorph(m, m.morphs[i])],
     display_slots |-> [i \in DOMAIN m.display_slots |->
                          SaveDisplaySlot(m, m.display_slots[i])],
     rigids |-> [i \in DOMAIN m.rigids |-> SaveRigid(m, m.rigids[i])],
     joints |-> [i \in DOMAIN m.joints |-> SaveJoint(m, m.joints[i])]]

\* What is left of a file whose writing stopped at an exception
Truncated == [kind |-> "truncated"]

(***************************************************************************)
(* Paths: <<directory, file name>>; a relative path has the directory "".  *)
(***************************************************************************)
EmptyPath == <<"", "">>
PBase == <<"/d", "base.pmx">>
PPatch == <<"/d", "patch.pmx">>
POut == <<"/d", "out.pmx">>
PRel == <<"", "out.pmx">>
Paths == {PBase, PPatch, POut, PRel}

IsAbs(p) == p[1] # ""          \* os.path.isabs
DirName(p) == p[1]             \* os.path.dirname
Join(dir, p) == IF IsAbs(p) THEN p ELSE <<dir, p[2]>>   \* os.path.join

(***************************************************************************)
(* The files of the scenarios. F labels the file ("B": the base file,      *)
(* "P": the patch file); payloads are tokens <<F, position>>, so a value   *)
(* of the patch file differs from every value of the base file.            *)
(***************************************************************************)
FileVertex(F, k) == [co |-> Tok(F, k), bone_indices |-> <<0>>]

\* Bone i of n: a child of the bone before it; disp = <<k, t>> makes bone k
\* (0: none) display-connect to the bone of index t, every other bone has
\* an offset vector. The bones of the patch file are IK bones with an
\* additional transform, those of the base file are plain.
FileBone(F, i, name, disp) ==
    LET rich == (F = "P") IN
    [name |-> name, name_e |-> Tok(F, i),
     location |-> Tok(F, i),
     parent_index |-> i - 2,
     trans_order |-> Tok(F, i),
     trans_after_physics |-> rich,
     disp_connection_type |-> IF disp[1] = i THEN 1 ELSE 0,
     disp_connection_bone_index |-> IF disp[1] = i THEN disp[2] ELSE -1,
     disp_connection_vector |-> IF disp[1] = i THEN << >> ELSE Tok(F, i),
     is_rotatable |-> TRUE, is_movable |-> rich,
     is_visible |-> TRUE, is_controllable |-> ~rich,
     has_add_rot |-> rich, has_add_loc |-> FALSE,
     add_trans_bone_index |-> IF rich THEN 0 ELSE -1,
     add_trans_value |-> IF rich THEN Tok(F, i) ELSE Default,
     fixed_axis |-> IF rich THEN Tok(F, i) ELSE NoneTok,
     local_coord |-> IF rich THEN NoneTok ELSE Tok(F, i),
     ext_trans_key |-> IF rich THEN Tok(F, i) ELSE NoneTok,
     is_ik |-> rich,
     ik_target_index |-> IF rich THEN 0 ELSE -1,
     loop_count |-> IF rich THEN Tok(F, i) ELSE Default,
     rotation_unit |-> IF rich THEN Tok(F, i) ELSE Default,
     ik_links |-> IF rich
                  THEN <<[target_index |-> i - 1, min_angle |-> NoneTok,
                          max_angle |-> NoneTok]>>
                  ELSE << >>]

\* Texture i of a file: the first path is common to both files
FileTexture(F, i) ==
    IF i = 1 THEN "shared.png" ELSE IF F = "B" THEN "base.png" ELSE "patch.png"

\* Material i with nf faces; its texture is the file's texture i-1
FileMaterial(F, i, name, nf) ==
    [name |-> name, name_e |-> Tok(F, i),
     diffuse |-> Tok(F, i), specular |-> Tok(F, i), shininess |-> Tok(F, i),
     ambient |-> Tok(F, i), flags |-> Tok(F, i),
     edge_color |-> Tok(F, i), edge_size |-> Tok(F, i),
     texture_index |-> i - 1, sphere_texture_index |-> -1,
     sphere_texture_mode |-> Tok(F, i),
     is_shared_toon_texture |-> TRUE,
     shared_toon_texture_index |-> Tok(F, i),
     toon_texture_index |-> -1,
     comment |-> Tok(F, i),
     vertex_count |-> nf * 3]

\* Morph i: odd positions hold a vertex morph on vertex 0, even positions a
\* bone morph on bone 0
FileMorph(F, i, name) ==
    [name |-> name, name_e |-> Tok(F, i), category |-> Tok(F, i),
     type_index |-> IF i % 2 = 1 THEN 1 ELSE 2,
     offsets |-> <<[index |-> 0, payload |-> Tok(F, i)]>>]

FileDisplaySlot(F, i, name) ==
    [name |-> name, name_e |-> Tok(F, i), isSpecial |-> (i = 1),
     items |-> <<[disp_type |-> 0, index |-> 0]>>]

FileRigid(F, i, name) ==
    [name |-> name, name_e |-> Tok(F, i), bone_index |-> 0, payload |-> Tok(F, i)]

FileJoint(F, i, name) ==
    [name |-> name, name_e |-> Tok(F, i), mode |-> 0,
     src_index |-> 0, dst_index |-> 0, payload |-> Tok(F, i)]

\* A PMX file with the given element names. nf[i] is the number of faces of
\* material i; the faces form a strip over the vertices (face k uses the
\* vertices k-1, k, k+1) and the last vertex is used by no face.
MkFile(F, names, disp, nf) ==
    LET total == SumSeq(nf) IN
    [kind |-> "pmx",
     vertices |-> [k \in 1..(total + 3) |-> FileVertex(F, k)],
     faces |-> [k \in 1..total |-> <<k + 1, k, k - 1>>],
     textures |-> [i \in DOMAIN names.materials |-> FileTexture(F, i)],
     materials |-> [i \in DOMAIN names.materials |->
                      FileMaterial(F, i, names.materials[i], nf[i])],
     bones |-> [i \in DOMAIN names.bones |-> FileBone(F, i, names.bones[i], disp)],
     morphs |-> [i \in DOMAIN names.morphs |-> FileMorph(F, i, names.morphs[i])],
     display_slots |-> [i \in DOMAIN names.display_slots |->
                          FileDisplaySlot(F, i, names.display_slots[i])],
     rigids |-> [i \in DOMAIN names.rigids |-> FileRigid(F, i, names.rigids[i])],
     joints |-> [i \in DOMAIN names.joints |-> FileJoint(F, i, names.joints[i])]]

\* The element names of a plain document
DefaultNames ==
    [bones |-> <<"root">>, materials |-> <<"mat">>, morphs |-> <<"vm", "bm">>,
     display_slots |-> <<"Root">>, rigids |-> <<"rb">>, joints |-> <<"jt">>]

NoDisp == <<0, -1>>

\* One face for every material
OneFaceEach(names) == [i \in DOMAIN names.materials |-> 1]

DefaultFile(F) == MkFile(F, DefaultNames, NoDisp, OneFaceEach(DefaultNames))

(***************************************************************************)
(* merge_pmx_files as a sequence of steps. pc names the next step.         *)
(***************************************************************************)
NoResult == [kind |-> "none"]
NoColl == [items |-> << >>, cache |-> {}]
NoCall == [op |-> "none"]
NoError == "none"
NoStream == [kind |-> "none"]
Returned(ok, msg) == [kind |-> "return", ok |-> ok, msg |-> msg]
Raised(exc) == [kind |-> "raise", exc |-> exc]

\* The path checks at the top of merge_pmx_files
CheckPaths ==
    /\ pc = "start"
    /\ IF args.path_base = EmptyPath \/ args.path_patch = EmptyPath
          \/ args.path_out = EmptyPath
       THEN /\ ret' = Returned(FALSE, "paths must be specified")
            /\ pc' = "done"
       ELSE IF args.path_base = args.path_patch
       THEN /\ ret' = Returned(FALSE, "base and patch cannot be the same")
            /\ pc' = "done"
       ELSE /\ ret' = ret
            /\ pc' = "load_base"
    /\ UNCHANGED <<libvars, at_save, reloaded, fs, fs0, writable, args, path_out, base, patch, opened, pre>>

\* base = load_pmx_file(path_base); if not base: return False, ...;
\* then a relative path_out is made relative to the directory of path_base
LoadBase ==
    /\ pc = "load_base"
    /\ LET loaded == load_pmx_file(fs, args.path_base, "B") IN
       /\ base' = loaded
       /\ IF loaded = NoModel
          THEN /\ ret' = Returned(FALSE, "failed to load base model")
               /\ pc' = "done"
               /\ path_out' = path_out
          ELSE IF ~IsAbs(path_out) /\ IsAbs(args.path_base)
                  /\ DirName(args.path_base) = ""
          THEN /\ ret' = Returned(FALSE, "base model path is not a valid directory")
               /\ pc' = "done"
               /\ path_out' = path_out
          ELSE /\ ret' = ret
               /\ pc' = "validate_base"
               /\ path_out' = IF ~IsAbs(path_out) /\ IsAbs(args.path_base)
                              THEN Join(DirName(args.path_base), path_out)
                              ELSE path_out
    /\ UNCHANGED <<libvars, at_save, reloaded, fs, fs0, writable, args, patch, opened, pre>>

\* if validate_elements(base): return False, ...
ValidateBase ==
    /\ pc = "validate_base"
    /\ IF validate_elements(base)
       THEN /\ ret' = Returned(FALSE, "base model has duplicate elements")
            /\ pc' = "done"
       ELSE /\ ret' = ret
            /\ pc' = "load_patch"
    /\ UNCHANGED <<libvars, at_save, reloaded, fs, fs0, writable, args, path_out, base, patch, opened, pre>>

\* patch = load_pmx_file(path_patch); if not patch: return False, ...
LoadPatch ==
    /\ pc = "load_patch"
    /\ LET loaded == load_pmx_file(fs, args.path_patch, "P") IN
       /\ patch' = loaded
       /\ IF loaded = NoModel
          THEN /\ ret' = Returned(FALSE, "failed to load patch model")
               /\ pc' = "done"
          ELSE /\ ret' = ret
               /\ pc' = "validate_patch"
    /\ UNCHANGED <<libvars, at_save, reloaded, fs, fs0, writable, args, path_out, base, opened, pre>>

\* if validate_elements(patch): return False, ...
ValidatePatch ==
    /\ pc = "validate_patch"
    /\ IF validate_elements(patch)
       THEN /\ ret' = Returned(FALSE, "patch model has duplicate elements")
            /\ pc' = "done"
       ELSE /\ ret' = ret
            /\ pc' = "merge_bones"
    /\ UNCHANGED <<libvars, at_save, reloaded, fs, fs0, writable, args, path_out, base, patch, opened, pre>>

\* merge_models: append_update_bones; the next step is the first block of
\* append_update_material, or append_update_morphs when that returns early
MergeBones ==
    /\ pc = "merge_bones"
    /\ pre' = base
    /\ base' = append_update_bones(base, patch, args.append, args.update)
    /\ pc' = IF MaterialMergeSkipped(args.append, args.update)
             THEN "merge_morphs" ELSE "mat_vertices"
    /\ UNCHANGED <<libvars, at_save, reloaded, fs, fs0, writable, args, path_out, patch, ret, opened>>

MergeMatVertices ==
    /\ pc = "mat_vertices"
    /\ base' = MatAppendVertices(base, patch, args.append, args.update)
    /\ pc' = "mat_textures"
    /\ UNCHANGED <<libvars, at_save, reloaded, fs, fs0, writable, args, path_out, patch, ret, opened, pre>>

MergeMatTextures ==
    /\ pc = "mat_textures"
    /\ base' = MatEnsureTextures(base, patch)
    /\ pc' = "mat_append"
    /\ UNCHANGED <<libvars, at_save, reloaded, fs, fs0, writable, args, path_out, patch, ret, opened, pre>>

MergeMatAppend ==
    /\ pc = "mat_append"
    /\ base' = MatAppendMaterials(base, patch, args.append)
    /\ pc' = "mat_geom"
    /\ UNCHANGED <<libvars, at_save, reloaded, fs, fs0, writable, args, path_out, patch, ret, opened, pre>>

MergeMatGeometry ==
    /\ pc = "mat_geom"
    /\ base' = MatUpdateGeometry(base, patch, args.update)
    /\ pc' = "mat_vmorphs"
    /\ UNCHANGED <<libvars, at_save, reloaded, fs, fs0, writable, args, path_out, patch, ret, opened, pre>>

MergeMatVertexMorphs ==
    /\ pc = "mat_vmorphs"
    /\ base' = MatMergeVertexMorphs(base, patch)
    /\ pc' = "mat_settings"
    /\ UNCHANGED <<libvars, at_save, reloaded, fs, fs0, writable, args, path_out, patch, ret, opened, pre>>

MergeMatSettings ==
    /\ pc = "mat_settings"
    /\ base' = MatUpdateSettings(base, patch, args.update)
    /\ pc' = "merge_morphs"
    /\ UNCHANGED <<libvars, at_save, reloaded, fs, fs0, writable, args, path_out, patch, ret, opened, pre>>

MergeMorphs ==
    /\ pc = "merge_morphs"
    /\ base' = append_update_morphs(base, patch, args.append, args.update)
    /\ pc' = "merge_physics"
    /\ UNCHANGED <<libvars, at_save, reloaded, fs, fs0, writable, args, path_out, patch, ret, opened, pre>>

MergePhysics ==
    /\ pc = "merge_physics"
    /\ IF PhysicsMergeSkipped(args.append, args.update)
       THEN /\ base' = base
            /\ pc' = "merge_display"
       ELSE /\ base' = PhysAppendRigids(base, patch, args.append)
            /\ pc' = "phys_append_joints"
    /\ UNCHANGED <<libvars, at_save, reloaded, fs, fs0, writable, args, path_out, patch, ret, opened, pre>>

MergePhysicsAppendJoints ==
    /\ pc = "phys_append_joints"
    /\ base' = PhysAppendJoints(base, patch, args.append)
    /\ pc' = "phys_update_rigids"
    /\ UNCHANGED <<libvars, at_save, reloaded, fs, fs0, writable, args, path_out, patch, ret,
                   opened, pre>>

MergePhysicsUpdateRigids ==
    /\ pc = "phys_update_rigids"
    /\ base' = PhysUpdateRigids(base, patch, args.update)
    /\ pc' = "phys_update_joints"
    /\ UNCHANGED <<libvars, at_save, reloaded, fs, fs0, writable, args, path_out, patch, ret,
                   opened, pre>>

MergePhysicsUpdateJoints ==
    /\ pc = "phys_update_joints"
    /\ base' = PhysUpdateJoints(base, patch, args.update)
    /\ pc' = "merge_display"
    /\ UNCHANGED <<libvars, at_save, reloaded, fs, fs0, writable, args, path_out, patch, ret,
                   opened, pre>>

MergeDisplay ==
    /\ pc = "merge_display"
    /\ base' = append_update_displayitems(base, patch, args.append, args.update)
    /\ pc' = "save"
    /\ UNCHANGED <<libvars, at_save, reloaded, fs, fs0, writable, args, path_out, patch, ret, opened, pre>>

\* save_pmx_file(base, path_out): pypmx.save opens path_out for writing
\* (which empties the file), purges the model and writes it. save_pmx_file
\* logs an exception and raises it again; merge_pmx_files does not catch it.
Save ==
    /\ pc = "save"
    /\ pc' = "done"
    /\ at_save' = base
    /\ IF path_out \notin writable
       THEN /\ ret' = Raised("OSError")
            /\ UNCHANGED <<fs, base, opened>>
       ELSE /\ opened' = opened \cup {path_out}
            /\ base' = Purged(base)
            /\ IF SaveRaises(Purged(base))
               THEN /\ fs' = [fs EXCEPT ![path_out] = Truncated]
                    /\ ret' = Raised("KeyError")
               ELSE /\ fs' = [fs EXCEPT ![path_out] = SaveDoc(Purged(base))]
                    /\ ret' = Returned(TRUE, "merge completed successfully")
    /\ UNCHANGED <<libvars, reloaded, fs0, writable, args, path_out, patch, pre>>

\* A caller loads the merged document: pypmx.load(path_out), guarded as in
\* load_pmx_file
Reload ==
    /\ pc = "done"
    /\ ret.kind = "return" /\ ret.ok
    /\ reloaded' = load_pmx_file(fs, path_out, "R")
    /\ pc' = "reloaded"
    /\ UNCHANGED <<libvars, at_save, fs, fs0, writable, args, path_out, base, patch,
                   ret, opened, pre>>

Next ==
    \/ CheckPaths
    \/ LoadBase
    \/ ValidateBase
    \/ LoadPatch
    \/ ValidatePatch
    \/ MergeBones
    \/ MergeMatVertices
    \/ MergeMatTextures
    \/ MergeMatAppend
    \/ MergeMatGeometry
    \/ MergeMatVertexMorphs
    \/ MergeMatSettings
    \/ MergeMorphs
    \/ MergePhysics
    \/ MergePhysicsAppendJoints
    \/ MergePhysicsUpdateRigids
    \/ MergePhysicsUpdateJoints
    \/ MergeDisplay
    \/ Save
    \/ Reload

(***************************************************************************)
(* Initial states: the arguments and the files of a call.                  *)
(***************************************************************************)
Start(files, w, a) ==
    /\ fs = files
    /\ fs0 = files
    /\ writable = w
    /\ args = a
    /\ pc = "start"
    /\ path_out = a.path_out
    /\ base = NoModel
    /\ patch = NoModel
    /\ ret = NoResult
    /\ opened = {}
    /\ pre = NoModel
    /\ at_save = NoModel
    /\ reloaded = NoModel
    /\ elements = NoColl
    /\ call = NoCall
    /\ err = NoError
    /\ io = NoStream

Files(b, p) == [q \in Paths |-> IF q = PBase THEN b ELSE IF q = PPatch THEN p ELSE NoFile]

Args(pb, pp, po, append, update) ==
    [path_base |-> pb, path_patch |-> pp, path_out |-> po,
     append |-> append, update |-> update]

\* options_default of pmxmerge.py
DefaultAppend == {"MATERIAL", "BONE", "MORPH", "PHYSICS", "DISPLAY"}
DefaultUpdate ==
    {"MAT_GEOM", "MAT_SETTING", "BONE_LOC", "BONE_SETTING", "MORPH", "PHYSICS", "DISPLAY"}

\* Calls of every kind of failure: one of the two files is missing or has
\* arbitrary (empty, repeated) names in one collection, the other is plain
Collections == {"bones", "materials", "morphs", "display_slots", "rigids", "joints"}

NameLists == SeqsUpTo({"", "x", "y"}, MaxNames)

NamedFiles(F) ==
    {NoFile} \cup
    {MkFile(F, [DefaultNames EXCEPT ![c] = nl], NoDisp,
            OneFaceEach([DefaultNames EXCEPT ![c] = nl]))
        : c \in Collections, nl \in NameLists}

FilePairs ==
    {<<b, DefaultFile("P")>> : b \in NamedFiles("B")}
    \cup {<<DefaultFile("B"), p>> : p \in NamedFiles("P")}

Init ==
    \E f \in FilePairs,
       pb \in {EmptyPath, PBase}, pp \in {EmptyPath, PBase, PPatch},
       po \in {EmptyPath, PBase, POut, PRel},
       opt \in {<<{}, {}>>, <<DefaultAppend, DefaultUpdate>>},
       w \in {Paths, Paths \ {POut}} :
        Start(Files(f[1], f[2]), w, Args(pb, pp, po, opt[1], opt[2]))

Spec == Init /\ [][Next]_vars

(***************************************************************************)
(* Calls on valid files that differ in their bones.                        *)
(***************************************************************************)
NamePool == <<"a", "b", "c">>

Min(x, y) == IF x < y THEN x ELSE y

\* The names of a base collection: the first names of the pool
BaseNameSeqs(max) == {SubSeq(NamePool, 1, k) : k \in 1..Min(max, Len(NamePool))}

\* The names of a patch collection: any names of the pool in any order
PatchNameSeqs(max) == InjSeqs(Range(NamePool), 1, Min(max, Len(NamePool)))

\* No bone, or one bone k, display-connects to a bone index t (-1: none).
\* In the base file that bone is the first one.
DispChoices(F, n) ==
    {NoDisp} \cup {<<k, t>> : k \in 1..(IF F = "B" THEN 1 ELSE n), t \in (-1)..(n - 1)}

BoneFiles(F, nameSeqs) ==
    UNION {{MkFile(F, [DefaultNames EXCEPT !.bones = ns], d, OneFaceEach(DefaultNames))
              : d \in DispChoices(F, Len(ns))}
           : ns \in nameSeqs}

\* Append and update sets: every choice among the categories ownA and
\* ownU, the other categories all absent or all present
OptionChoices(ownA, ownU) ==
    {<<xa \cup y[1], xu \cup y[2]>> :
        xa \in SUBSET ownA, xu \in SUBSET ownU,
        y \in {<<{}, {}>>, <<AppendVocabulary \ ownA, UpdateVocabulary \ ownU>>}}

InitBones ==
    \E b \in BoneFiles("B", BaseNameSeqs(MaxBones)),
       p \in BoneFiles("P", PatchNameSeqs(MaxBones)),
       opt \in OptionChoices({"BONE"}, {"BONE_LOC", "BONE_SETTING"}) :
        Start(Files(b, p), Paths, Args(PBase, PPatch, POut, opt[1], opt[2]))

SpecBones == InitBones /\ [][Next]_vars

(***************************************************************************)
(* Calls on valid files that differ in their materials and faces.          *)
(***************************************************************************)
FaceCounts == {0, 1}

MaterialFiles(F, nameSeqs) ==
    UNION {{MkFile(F, [DefaultNames EXCEPT !.materials = ns], NoDisp, nf)
              : nf \in [DOMAIN ns -> FaceCounts]}
           : ns \in nameSeqs}

InitMaterials ==
    \E b \in MaterialFiles("B", BaseNameSeqs(MaxMats)),
       p \in MaterialFiles("P", PatchNameSeqs(MaxMats)),
       opt \in OptionChoices({"MATERIAL"}, {"MAT_GEOM", "MAT_SETTING"}) :
        Start(Files(b, p), Paths, Args(PBase, PPatch, POut, opt[1], opt[2]))

SpecMaterials == InitMaterials /\ [][Next]_vars

(***************************************************************************)
(* Calls on valid files that differ in their morphs.                       *)
(***************************************************************************)
\* Morph.create: 0 group, 1 vertex, 2 bone, 3..7 UV channel 0..4, 8 material
PatchMorphTypes == {0, 1, 2, 3, 4, 8}

\* The morphs of the base file: "a" is a UV morph of channel 0, "b" a bone
\* morph, "c" a vertex morph
BaseMorphType(name) == CASE name = "a" -> 3 [] name = "b" -> 2 [] OTHER -> 1

\* A plain file whose morphs have the given names and type discriminants
MorphFile(F, ns, types) ==
    [DefaultFile(F) EXCEPT !.morphs =
        [i \in DOMAIN ns |-> [FileMorph(F, i, ns[i]) EXCEPT !.type_index = types[i]]]]

BaseMorphFiles ==
    {MorphFile("B", ns, [i \in DOMAIN ns |-> BaseMorphType(ns[i])])
        : ns \in BaseNameSeqs(MaxMorphs)}

PatchMorphFiles ==
    UNION {{MorphFile("P", ns, types) : types \in [DOMAIN ns -> PatchMorphTypes]}
           : ns \in PatchNameSeqs(MaxMorphs)}

InitMorphs ==
    \E b \in BaseMorphFiles, p \in PatchMorphFiles,
       opt \in OptionChoices({"MORPH"}, {"MORPH"}) :
        Start(Files(b, p), Paths, Args(PBase, PPatch, POut, opt[1], opt[2]))

SpecMorphs == InitMorphs /\ [][Next]_vars

(***************************************************************************)
(* Calls on valid files that differ in their display slots. Both files     *)
(* have a bone and a morph of the same name, "arm".                        *)
(***************************************************************************)
DisplayNames ==
    [DefaultNames EXCEPT !.bones = <<"root", "arm">>, !.morphs = <<"arm", "smile">>]

\* Display items of a file: disp_type 0 is a bone index, 1 a morph index
BoneRootItem == [disp_type |-> 0, index |-> 0]
BoneArmItem == [disp_type |-> 0, index |-> 1]
MorphArmItem == [disp_type |-> 1, index |-> 0]
MorphSmileItem == [disp_type |-> 1, index |-> 1]

\* The items of the slots of the base file, by slot position
BaseItems(i) == IF i % 2 = 1 THEN <<BoneArmItem>> ELSE <<BoneRootItem, MorphSmileItem>>

\* The item lists a slot of the patch file may have
PatchItemLists ==
    {<< >>, <<BoneRootItem>>, <<BoneArmItem>>, <<MorphArmItem, BoneRootItem>>,
     <<MorphArmItem, MorphSmileItem>>}

DisplayFile(F, ns, items) ==
    [MkFile(F, DisplayNames, NoDisp, OneFaceEach(DisplayNames)) EXCEPT
        !.display_slots =
            [i \in DOMAIN ns |-> [FileDisplaySlot(F, i, ns[i]) EXCEPT !.items = items[i]]]]

BaseDisplayFiles ==
    {DisplayFile("B", ns, [i \in DOMAIN ns |-> BaseItems(i)]) : ns \in BaseNameSeqs(MaxSlots)}

PatchDisplayFiles ==
    UNION {{DisplayFile("P", ns, items) : items \in [DOMAIN ns -> PatchItemLists]}
           : ns \in PatchNameSeqs(MaxSlots)}

InitDisplay ==
    \E b \in BaseDisplayFiles, p \in PatchDisplayFiles,
       opt \in OptionChoices({"DISPLAY"}, {"DISPLAY"}) :
        Start(Files(b, p), Paths, Args(PBase, PPatch, POut, opt[1], opt[2]))

SpecDisplay == InitDisplay /\ [][Next]_vars

(***************************************************************************)
(* Calls on valid files that differ in their rigid bodies and joints.      *)
(***************************************************************************)
PhysicsFiles(F, rigidSeqs, jointSeqs) ==
    {MkFile(F, [DefaultNames EXCEPT !.rigids = rs, !.joints = js], NoDisp,
            OneFaceEach(DefaultNames))
        : rs \in rigidSeqs, js \in jointSeqs}

InitPhysics ==
    \E b \in PhysicsFiles("B", BaseNameSeqs(MaxRigids), BaseNameSeqs(MaxJoints)),
       p \in PhysicsFiles("P", PatchNameSeqs(MaxRigids), PatchNameSeqs(MaxJoints)),
       opt \in OptionChoices({"PHYSICS"}, {"PHYSICS"}) :
        Start(Files(b, p), Paths, Args(PBase, PPatch, POut, opt[1], opt[2]))

SpecPhysics == InitPhysics /\ [][Next]_vars

(***************************************************************************)
(* Calls on valid files that differ in the names of one collection.        *)
(***************************************************************************)
\* The append and update categories that act on a collection
OwnOptions(c) ==
    CASE c = "bones" -> <<{"BONE"}, {"BONE_LOC", "BONE_SETTING"}>>
      [] c = "materials" -> <<{"MATERIAL"}, {"MAT_GEOM", "MAT_SETTING"}>>
      [] c = "morphs" -> <<{"MORPH"}, {"MORPH"}>>
      [] c = "display_slots" -> <<{"DISPLAY"}, {"DISPLAY"}>>
      [] OTHER -> <<{"PHYSICS"}, {"PHYSICS"}>>

ValidFile(F, c, ns) ==
    MkFile(F, [DefaultNames EXCEPT ![c] = ns], NoDisp,
           OneFaceEach([DefaultNames EXCEPT ![c] = ns]))

InitValid ==
    \E c \in Collections :
        \E bn \in BaseNameSeqs(MaxNames), pn \in PatchNameSeqs(MaxNames),
           opt \in OptionChoices(OwnOptions(c)[1], OwnOptions(c)[2]) :
            Start(Files(ValidFile("B", c, bn), ValidFile("P", c, pn)), Paths,
                  Args(PBase, PPatch, POut, opt[1], opt[2]))

SpecValid == InitValid /\ [][Next]_vars

(***************************************************************************)
(* A NamedElements instance under calls of its list operations. No         *)
(* merge_pmx_files call is in progress (pc = "idle").                      *)
(***************************************************************************)
\* Elements to add: two objects for each of the names "", "a" and "b"
Item(name, k) == [name |-> name, id |-> k]
ItemPool == {Item(n, k) : n \in {"", "a", "b"}, k \in 1..2}

\* _rebuild_cache: for idx, item in enumerate(self):
\*     self._name_cache[item.name] = (idx, item)
\* as the set of the entries name -> (idx, item)
RebuildCache(items) ==
    {[name |-> items[i].name, idx |-> i - 1, item |-> items[i]] :
        i \in {i \in DOMAIN items : \A j \in DOMAIN items : items[j].name = items[i].name => j <= i}}

Rebuilt(items) == [items |-> items, cache |-> RebuildCache(items)]

\* list.insert(idx, item) for 0 <= idx <= len
InsertAt(items, idx, item) ==
    SubSeq(items, 1, idx) \o <<item>> \o SubSeq(items, idx + 1, Len(items))

NamedAppend ==
    /\ pc = "idle"
    /\ Len(elements.items) < MaxElems
    /\ \E item \in ItemPool :
        /\ call' = [op |-> "append", items |-> <<item>>, before |-> elements]
        /\ IF ~ValidItem(item)
           THEN err' = "ValueError" /\ elements' = elements
           ELSE err' = NoError /\ elements' = Rebuilt(Append(elements.items, item))
    /\ UNCHANGED <<mergevars, io>>

NamedInsert ==
    /\ pc = "idle"
    /\ Len(elements.items) < MaxElems
    /\ \E item \in ItemPool, idx \in 0..Len(elements.items) :
        /\ call' = [op |-> "insert", items |-> <<item>>, before |-> elements]
        /\ IF ~ValidItem(item)
           THEN err' = "ValueError" /\ elements' = elements
           ELSE err' = NoError /\ elements' = Rebuilt(InsertAt(elements.items, idx, item))
    /\ UNCHANGED <<mergevars, io>>

NamedExtend ==
    /\ pc = "idle"
    /\ \E items \in SeqsUpTo(ItemPool, MaxElems - Len(elements.items)) :
        /\ call' = [op |-> "extend", items |-> items, before |-> elements]
        /\ IF \E i \in DOMAIN items : ~ValidItem(items[i])
           THEN err' = "ValueError" /\ elements' = elements
           ELSE err' = NoError /\ elements' = Rebuilt(elements.items \o items)
    /\ UNCHANGED <<mergevars, io>>

NextNamed == NamedAppend \/ NamedInsert \/ NamedExtend

InitNamed ==
    /\ fs = [q \in Paths |-> NoFile] /\ fs0 = fs /\ writable = Paths
    /\ args = Args(EmptyPath, EmptyPath, EmptyPath, {}, {})
    /\ pc = "idle" /\ path_out = EmptyPath
    /\ base = NoModel /\ patch = NoModel /\ ret = NoResult /\ opened = {}
    /\ pre = NoModel /\ at_save = NoModel /\ reloaded = NoModel
    /\ elements = NoColl /\ call = NoCall /\ err = NoError /\ io = NoStream

SpecNamed == InitNamed /\ [][NextNamed]_vars

\* The list without the element at position p (1-based)
RemoveAt(items, p) == SubSeq(items, 1, p - 1) \o SubSeq(items, p + 1, Len(items))

\* The list with the slice [a:b] replaced by new, 0 <= a <= b <= len
ReplaceSlice(items, a, b, new) ==
    SubSeq(items, 1, a) \o new \o SubSeq(items, b + 1, Len(items))

\* The slices [a:b] of a list of length n
SlicesOf(n) == {s \in (0..n) \X (0..n) : s[1] <= s[2]}

\* pop(idx): list.pop raises IndexError outside the list, before the rebuild
NamedPop ==
    /\ pc = "idle"
    /\ \E idx \in 0..Len(elements.items) :
        /\ call' = [op |-> "pop", items |-> << >>, before |-> elements]
        /\ IF idx >= Len(elements.items)
           THEN err' = "IndexError" /\ elements' = elements
           ELSE err' = NoError /\ elements' = Rebuilt(RemoveAt(elements.items, idx + 1))
    /\ UNCHANGED <<mergevars, io>>

\* remove(item): list.remove takes out the first equal element or raises
\* ValueError, before the rebuild
NamedRemove ==
    /\ pc = "idle"
    /\ \E item \in ItemPool :
        /\ call' = [op |-> "remove", items |-> <<item>>, before |-> elements]
        /\ IF item \notin Range(elements.items)
           THEN err' = "ValueError" /\ elements' = elements
           ELSE LET p == CHOOSE i \in DOMAIN elements.items :
                            /\ elements.items[i] = item
                            /\ \A j \in 1..(i - 1) : elements.items[j] # item
                IN err' = NoError /\ elements' = Rebuilt(RemoveAt(elements.items, p))
    /\ UNCHANGED <<mergevars, io>>

\* __delitem__(idx) with an int (IndexError outside the list) or a slice
NamedDelItem ==
    /\ pc = "idle"
    /\ \/ \E idx \in 0..Len(elements.items) :
            /\ call' = [op |-> "delitem", items |-> << >>, before |-> elements]
            /\ IF idx >= Len(elements.items)
               THEN err' = "IndexError" /\ elements' = elements
               ELSE err' = NoError /\ elements' = Rebuilt(RemoveAt(elements.items, idx + 1))
       \/ \E s \in SlicesOf(Len(elements.items)) :
            /\ call' = [op |-> "delslice", items |-> << >>, before |-> elements]
            /\ err' = NoError
            /\ elements' = Rebuilt(ReplaceSlice(elements.items, s[1], s[2], << >>))
    /\ UNCHANGED <<mergevars, io>>

\* clear()
NamedClear ==
    /\ pc = "idle"
    /\ call' = [op |-> "clear", items |-> << >>, before |-> elements]
    /\ err' = NoError
    /\ elements' = Rebuilt(<< >>)
    /\ UNCHANGED <<mergevars, io>>

\* __setitem__(idx, value) with an int
NamedSetIndex ==
    /\ pc = "idle"
    /\ \E item \in ItemPool, idx \in 0..Len(elements.items) :
        /\ call' = [op |-> "setindex", items |-> <<item>>, before |-> elements]
        /\ IF ~ValidItem(item)
           THEN err' = "ValueError" /\ elements' = elements
           ELSE IF idx >= Len(elements.items)
           THEN err' = "IndexError" /\ elements' = elements
           ELSE err' = NoError /\ elements' = Rebuilt(SetAt(elements.items, idx, item))
    /\ UNCHANGED <<mergevars, io>>

\* __setitem__(slice, values)
NamedSetSlice ==
    /\ pc = "idle"
    /\ \E s \in SlicesOf(Len(elements.items)) :
       \E items \in SeqsUpTo(ItemPool, MaxElems - Len(elements.items) + s[2] - s[1]) :
        /\ Len(items) <= 1
        /\ call' = [op |-> "setslice", items |-> items, before |-> elements]
        /\ IF \E i \in DOMAIN items : ~ValidItem(items[i])
           THEN err' = "ValueError" /\ elements' = elements
           ELSE /\ err' = NoError
                /\ elements' = Rebuilt(ReplaceSlice(elements.items, s[1], s[2], items))
    /\ UNCHANGED <<mergevars, io>>

\* __setitem__(name, value): the position comes from the cache
NamedSetName ==
    /\ pc = "idle"
    /\ \E item \in ItemPool, name \in {"a", "b"} :
        /\ call' = [op |-> "setname", items |-> <<item>>, before |-> elements]
        /\ IF ~ValidItem(item)
           THEN err' = "ValueError" /\ elements' = elements
           ELSE IF \A e \in elements.cache : e.name # name
           THEN err' = "KeyError" /\ elements' = elements
           ELSE LET e == CHOOSE e \in elements.cache : e.name = name
                IN /\ err' = NoError
                   /\ elements' = Rebuilt(SetAt(elements.items, e.idx, item))
    /\ UNCHANGED <<mergevars, io>>

NextMutators ==
    \/ NamedAppend
    \/ NamedInsert
    \/ NamedExtend
    \/ NamedPop
    \/ NamedRemove
    \/ NamedDelItem
    \/ NamedClear
    \/ NamedSetIndex
    \/ NamedSetSlice
    \/ NamedSetName

SpecMutators == InitNamed /\ [][NextMutators]_vars

(***************************************************************************)
(* Index widths and index input/output: Header and the file streams.       *)
(***************************************************************************)
\* The index categories of Header, the vertex one and the five signed ones
NamedCategories == {"texture", "material", "bone", "morph", "rigid"}
Categories == {"vertex"} \cup NamedCategories

\* Variant of __getIndexSize that ignores the signed flag
getIndexSize_Unsigned(num, signed) ==
    IF 256 > num THEN 1 ELSE IF 65536 > num THEN 2 ELSE 4

\* Variant of __getIndexSize without the four-byte width
getIndexSize_NoFour(num, signed) ==
    IF 256 \div (IF signed THEN 2 ELSE 1) > num THEN 1 ELSE 2

\* Header.__getIndexSize: (1<<8)/s and (1<<16)/s are exact for s in {1, 2}
getIndexSize(num, signed) ==
    LET s == IF signed THEN 2 ELSE 1
    IN IF 256 \div s > num THEN 1
       ELSE IF 65536 \div s > num THEN 2
       ELSE 4

\* Header.updateIndexSizes, from the lengths of the model's collections
updateIndexSizes(counts) ==
    [vertex   |-> getIndexSize(counts.vertex, FALSE),
     texture  |-> getIndexSize(counts.texture, TRUE),
     material |-> getIndexSize(counts.material, TRUE),
     bone     |-> getIndexSize(counts.bone, TRUE),
     morph    |-> getIndexSize(counts.morph, TRUE),
     rigid    |-> getIndexSize(counts.rigid, TRUE)]

\* read<Category>Index / write<Category>Index: only the vertex index goes
\* through the unsigned formats
IsSignedIndex(cat) == cat # "vertex"

\* The sizes the format tables of __readIndex / __writeIndex have an entry for
IndexSizes == {1, 2, 4}

\* struct.pack accepts the value for "<b" "<h" "<i" (signed) or "<B" "<H" "<I".
\* The integers of the model are within 32 bits, so each fits "<i" and each
\* non-negative one fits "<I".
PackFits(index, size, signed) ==
    IF size = 4 THEN signed \/ index >= 0
    ELSE IF signed THEN -(2^(8 * size - 1)) <= index /\ index < 2^(8 * size - 1)
    ELSE 0 <= index /\ index < 2^(8 * size)

\* struct.pack, little endian, two's complement: the bytes written
pack(index, size) == [k \in 1..size |-> (index \div (256^(k - 1))) % 256]

\* Variant of unpack that reads every index with the unsigned formats
RECURSIVE unpack_Unsigned(_, _)
unpack_Unsigned(bytes, signed) ==
    IF Len(bytes) = 1 THEN bytes[1]
    ELSE bytes[1] + 256 * unpack_Unsigned(Tail(bytes), signed)

\* struct.unpack of the bytes read: the top byte carries the sign
RECURSIVE unpack(_, _)
unpack(bytes, signed) ==
    IF Len(bytes) = 1
    THEN IF signed /\ bytes[1] >= 128 THEN bytes[1] - 256 ELSE bytes[1]
    ELSE bytes[1] + 256 * unpack(Tail(bytes), signed)

\* Header.save: one byte per index size, in the order of the fields
HeaderBytes(h) == <<h.vertex, h.texture, h.material, h.bone, h.morph, h.rigid>>

\* Header.load: the index sizes read back from their bytes
HeaderOfBytes(b) ==
    [vertex |-> b[1], texture |-> b[2], material |-> b[3],
     bone |-> b[4], morph |-> b[5], rigid |-> b[6]]

\* The collection sizes at the edges of the index widths
BoundarySizes == {127, 128, 255, 256, 32767, 32768, 65535, 65536}

\* At most this many indices are written to one stream
MaxWrites == 2

\* The indices a document with n elements in a category holds: the first and
\* the last element and, where the format has it, -1 for no reference
IndicesOf(cat, n) == {0, n - 1} \cup (IF IsSignedIndex(cat) THEN {-1} ELSE {})

\* save: Header(model) computes the widths, header.save writes them
IndexOpenWrite ==
    /\ pc = "idle" /\ io = NoStream
    /\ \E nv, nn \in BoundarySizes :
          LET counts == [c \in Categories |-> IF c = "vertex" THEN nv ELSE nn]
              h == updateIndexSizes(counts)
          IN io' = [kind |-> "write", counts |-> counts, header |-> h,
                    data |-> HeaderBytes(h), log |-> << >>, got |-> << >>]
    /\ UNCHANGED <<mergevars, elements, call, err>>

\* FileWriteStream.write<Category>Index(index)
IndexWrite ==
    /\ pc = "idle" /\ io.kind = "write" /\ err = NoError
    /\ Len(io.log) < MaxWrites
    /\ \E cat \in Categories : \E index \in IndicesOf(cat, io.counts[cat]) :
          LET size == io.header[cat]
          IN IF size \notin IndexSizes
             THEN err' = "ValueError" /\ io' = io
             ELSE IF ~PackFits(index, size, IsSignedIndex(cat))
             THEN err' = "struct.error" /\ io' = io
             ELSE /\ err' = NoError
                  /\ io' = [io EXCEPT !.data = @ \o pack(index, size),
                                      !.log = Append(@, [cat |-> cat, index |-> index])]
    /\ UNCHANGED <<mergevars, elements, call>>

\* load: the stream is reopened for reading and Header.load reads the widths
IndexOpenRead ==
    /\ pc = "idle" /\ io.kind = "write" /\ err = NoError
    /\ io' = [io EXCEPT !.kind = "read",
                        !.header = HeaderOfBytes(SubSeq(io.data, 1, 6)),
                        !.data = SubSeq(io.data, 7, Len(io.data))]
    /\ UNCHANGED <<mergevars, elements, call, err>>

\* FileReadStream.read<Category>Index(), in the order the document was written
IndexRead ==
    /\ pc = "idle" /\ io.kind = "read" /\ err = NoError
    /\ Len(io.got) < Len(io.log)
    /\ LET cat == io.log[Len(io.got) + 1].cat
           size == io.header[cat]
       IN IF size \notin IndexSizes
          THEN err' = "ValueError" /\ io' = io
          ELSE /\ err' = NoError
               /\ io' = [io EXCEPT
                           !.got = Append(@, unpack(SubSeq(io.data, 1, size),
                                                    IsSignedIndex(cat))),
                           !.data = SubSeq(io.data, size + 1, Len(io.data))]
    /\ UNCHANGED <<mergevars, elements, call>>

NextIndex == IndexOpenWrite \/ IndexWrite \/ IndexOpenRead \/ IndexRead

SpecIndex == InitNamed /\ [][NextIndex]_vars

(***************************************************************************)
(* Calls on base files whose materials declare vertex counts of their own. *)
(***************************************************************************)
\* The vertex counts a material record may declare
VertexCounts == {0, 3, 4, 6}

\* A base file with nfaces faces in its face stream (it declares nfaces * 3
\* face indices) and materials that declare the vertex counts vc
FaceFile(ns, nfaces, vc) ==
    LET f == MkFile("B", [DefaultNames EXCEPT !.materials = ns], NoDisp,
                    [i \in DOMAIN ns |-> 0])
    IN [f EXCEPT !.vertices = [k \in 1..(nfaces + 3) |-> FileVertex("B", k)],
                 !.faces = [k \in 1..nfaces |-> <<k + 1, k, k - 1>>],
                 !.materials = [i \in DOMAIN ns |->
                                  [f.materials[i] EXCEPT !.vertex_count = vc[i]]]]

FaceFiles ==
    UNION {{FaceFile(ns, nfaces, vc) : nfaces \in 0..MaxFaces,
                                       vc \in [DOMAIN ns -> VertexCounts]}
           : ns \in BaseNameSeqs(MaxMats)}

InitFaces ==
    \E b \in FaceFiles,
       opt \in {<<{}, {}>>, <<DefaultAppend, DefaultUpdate>>} :
        Start(Files(b, DefaultFile("P")), Paths,
              Args(PBase, PPatch, POut, opt[1], opt[2]))

SpecFaces == InitFaces /\ [][Next]_vars

(***************************************************************************)
(* Calls on base files whose data ends inside the joint section.           *)
(***************************************************************************)
\* The joint record with only its first k fields
JointCut(j, k) == [f \in {JointFields[x] : x \in 1..k} |-> j[f]]

\* The joints ns referring to the rigid bodies of index s and d (-1: none);
\* with cut = <<c, k>> the data ends in joint c after its first k fields, and
\* nothing of the joints after c is in the file
CutJoints(ns, s, d, cut) ==
    [i \in DOMAIN ns |->
        LET j == [FileJoint("B", i, ns[i]) EXCEPT !.src_index = s, !.dst_index = d]
        IN IF i < cut[1] THEN j
           ELSE IF i = cut[1] THEN JointCut(j, cut[2])
           ELSE JointCut(j, 0)]

\* cut = <<Len(ns) + 1, 0>> is a complete file
JointFiles ==
    UNION {{[DefaultFile("B") EXCEPT !.joints = CutJoints(ns, s, d, cut)]
              : s \in {-1, 0}, d \in {-1, 0},
                cut \in ((DOMAIN ns) \X (0..(Len(JointFields) - 1)))
                            \cup {<<Len(ns) + 1, 0>>}}
           : ns \in BaseNameSeqs(MaxJoints)}

InitJoints ==
    \E b \in JointFiles,
       opt \in {<<{}, {}>>, <<DefaultAppend, DefaultUpdate>>} :
        Start(Files(b, DefaultFile("P")), Paths,
              Args(PBase, PPatch, POut, opt[1], opt[2]))

SpecJoints == InitJoints /\ [][Next]_vars

(***************************************************************************)
(* pypmx.load: Header.load, check by check, then Model.load.               *)
(***************************************************************************)
\* Header.PMX_SIGN and Header.VERSION
PMX_SIGN == <<"P", "M", "X", " ">>
VERSION == "2.0"

\* Encoding._MAP: the indices of utf-16-le and utf-8
EncodingIndices == {0, 1}

\* The first bytes of the files handed to load: each signature byte right or
\* wrong, a version, the header-length byte, the encoding byte
HeaderFiles ==
    [sign : {<<"P", "M", "X", " ">>, <<"P", "M", "X", "x">>, <<"P", "M", "x", " ">>,
             <<"P", "m", "X", " ">>, <<"p", "M", "X", " ">>, <<"p", "m", "x", "x">>},
     version : {"1.0", "2.0", "2.1"},
     hlen : {0, 8, 9},
     encoding : {0, 1, 2}]

\* load(path): FileReadStream(path), header = Header()
HeaderOpen ==
    /\ pc = "idle" /\ io = NoStream
    /\ \E f \in HeaderFiles :
          io' = [kind |-> "load", file |-> f, at |-> "sign",
                 sign |-> PMX_SIGN, version |-> "0", result |-> "none"]
    /\ UNCHANGED <<mergevars, elements, call, err>>

\* self.sign = fs.readBytes(4); the first three bytes are compared
HeaderReadSign ==
    /\ pc = "idle" /\ io.kind = "load" /\ io.at = "sign"
    /\ IF SubSeq(io.file.sign, 1, 3) # SubSeq(PMX_SIGN, 1, 3)
       THEN /\ err' = "InvalidFileError"
            /\ io' = [io EXCEPT !.sign = io.file.sign, !.at = "closed"]
       ELSE /\ err' = err
            /\ io' = [io EXCEPT !.sign = io.file.sign, !.at = "version"]
    /\ UNCHANGED <<mergevars, elements, call>>

\* self.version = fs.readFloat(); it must be VERSION
HeaderReadVersion ==
    /\ pc = "idle" /\ io.kind = "load" /\ io.at = "version"
    /\ IF io.file.version # VERSION
       THEN /\ err' = "UnsupportedVersionError"
            /\ io' = [io EXCEPT !.version = io.file.version, !.at = "closed"]
       ELSE /\ err' = err
            /\ io' = [io EXCEPT !.version = io.file.version, !.at = "encoding"]
    /\ UNCHANGED <<mergevars, elements, call>>

\* if fs.readByte() != 8 or self.sign[3] != self.PMX_SIGN[3]: raise;
\* then Encoding(fs.readByte()), which raises ValueError for an unknown index
HeaderReadLength ==
    /\ pc = "idle" /\ io.kind = "load" /\ io.at = "encoding"
    /\ IF io.file.hlen # 8 \/ io.sign[4] # PMX_SIGN[4]
       THEN err' = "InvalidFileError" /\ io' = [io EXCEPT !.at = "closed"]
       ELSE IF io.file.encoding \notin EncodingIndices
       THEN err' = "ValueError" /\ io' = [io EXCEPT !.at = "closed"]
       ELSE err' = err /\ io' = [io EXCEPT !.at = "model"]
    /\ UNCHANGED <<mergevars, elements, call>>

\* model = Model(); model.load(fs); return model
HeaderAccepted ==
    /\ pc = "idle" /\ io.kind = "load" /\ io.at = "model"
    /\ io' = [io EXCEPT !.at = "closed", !.result = "model"]
    /\ UNCHANGED <<mergevars, elements, call, err>>

NextHeader ==
    HeaderOpen \/ HeaderReadSign \/ HeaderReadVersion \/ HeaderReadLength \/ HeaderAccepted

SpecHeader == InitNamed /\ [][NextHeader]_vars

(***************************************************************************)
(* Calls on patch files whose references point forward in the file.        *)
(***************************************************************************)
\* A patch file with the bones and morphs "a", "b": the first bone has the
\* parent index pi, every vertex weight the bone index wi, and the first
\* morph has the type t (0: group, 2: bone) and one offset with the index gi
RefFile(pi, wi, t, gi) ==
    LET f == MkFile("P", [DefaultNames EXCEPT !.bones = <<"a", "b">>,
                                              !.morphs = <<"a", "b">>],
                    NoDisp, OneFaceEach(DefaultNames))
    IN [f EXCEPT !.bones[1].parent_index = pi,
                 !.vertices = [k \in DOMAIN f.vertices |->
                                 [f.vertices[k] EXCEPT !.bone_indices = <<wi>>]],
                 !.morphs[1].type_index = t,
                 !.morphs[1].offsets[1].index = gi]

InitRefs ==
    \E pi \in {-1, 0, 1}, wi \in {0, 1}, t \in {0, 2}, gi \in {0, 1},
       opt \in {<<{}, {}>>, <<DefaultAppend, DefaultUpdate>>} :
        Start(Files(DefaultFile("B"), RefFile(pi, wi, t, gi)), Paths,
              Args(PBase, PPatch, POut, opt[1], opt[2]))

SpecRefs == InitRefs /\ [][Next]_vars

(***************************************************************************)
(* pypmx.save, step by step, on the cardinalities of a model: the header,  *)
(* the two purges of Model.save, the body.                                  *)
(***************************************************************************)
\* Texture counts at the edge of the one-byte signed width
TextureSizes == {127, 128, 129}

\* Cardinalities of the material, bone, morph and rigid-body collections
NamedSizes == {1, 65535}

\* save(path, model) is entered with a model that has the cardinalities
\* counts, of which used.vertex vertices are referenced by a face and
\* used.texture textures by a material
SaveOpen ==
    /\ pc = "idle" /\ io = NoStream
    /\ \E nv \in BoundarySizes, nt \in TextureSizes, nn \in NamedSizes,
          uv \in {0, 1}, ut \in {0, 1} :
          io' = [kind |-> "save", at |-> "header",
                 counts |-> [c \in Categories |->
                               IF c = "vertex" THEN nv ELSE IF c = "texture" THEN nt ELSE nn],
                 used |-> [vertex |-> nv - uv, texture |-> nt - ut],
                 data |-> << >>, log |-> << >>]
    /\ UNCHANGED <<mergevars, elements, call, err>>

\* header = Header(model); header.save(fs); fs.setHeader(header)
SaveHeader ==
    /\ pc = "idle" /\ io.kind = "save" /\ io.at = "header"
    /\ io' = [io EXCEPT !.data = HeaderBytes(updateIndexSizes(io.counts)),
                        !.at = "purge_textures"]
    /\ UNCHANGED <<mergevars, elements, call, err>>

\* model.save: self.purge_unused_textures()
SavePurgeTextures ==
    /\ pc = "idle" /\ io.kind = "save" /\ io.at = "purge_textures"
    /\ io' = [io EXCEPT !.counts.texture = io.used.texture, !.at = "purge_vertices"]
    /\ UNCHANGED <<mergevars, elements, call, err>>

\* model.save: self.purge_unused_vertices(), skipped when every vertex is used
SavePurgeVertices ==
    /\ pc = "idle" /\ io.kind = "save" /\ io.at = "purge_vertices"
    /\ io' = [io EXCEPT !.counts.vertex = IF io.used.vertex = @ THEN @ ELSE io.used.vertex,
                        !.at = "body"]
    /\ UNCHANGED <<mergevars, elements, call, err>>

\* model.save, inside a section: an index of an element of the collections as
\* they are now (or -1) is written by write<Category>Index with the width of
\* the header that was set on the stream; struct.pack raises struct.error
\* for a value outside the format
SaveWriteIndex ==
    /\ pc = "idle" /\ io.kind = "save" /\ io.at = "body" /\ err = NoError
    /\ Len(io.log) < MaxWrites
    /\ \E cat \in Categories : \E index \in IndicesOf(cat, io.counts[cat]) :
          LET size == HeaderOfBytes(SubSeq(io.data, 1, 6))[cat]
          IN IF ~PackFits(index, size, IsSignedIndex(cat))
             THEN err' = "struct.error" /\ io' = [io EXCEPT !.at = "closed"]
             ELSE /\ err' = NoError
                  /\ io' = [io EXCEPT !.data = @ \o pack(index, size),
                                      !.log = Append(@, [cat |-> cat, index |-> index])]
    /\ UNCHANGED <<mergevars, elements, call>>

\* model.save: the sections are written with the cardinalities left
SaveBody ==
    /\ pc = "idle" /\ io.kind = "save" /\ io.at = "body"
    /\ io' = [io EXCEPT !.at = "closed"]
    /\ UNCHANGED <<mergevars, elements, call, err>>

NextSave ==
    \/ SaveOpen
    \/ SaveHeader
    \/ SavePurgeTextures
    \/ SavePurgeVertices
    \/ SaveWriteIndex
    \/ SaveBody

SpecSave == InitNamed /\ [][NextSave]_vars

(***************************************************************************)
(* Properties.                                                             *)
(***************************************************************************)
\* merge_models has run append_update_bones
AfterBones == pre # NoModel

\* merge_models has run append_update_material to its end
AfterMaterials ==
    /\ pre # NoModel
    /\ pc \in {"merge_morphs", "merge_physics", "phys_append_joints", "phys_update_rigids",
              "phys_update_joints", "merge_display", "save", "done", "reloaded"}

\* The steps inside merge_models and the save
MergeSteps ==
    {"mat_vertices", "mat_textures", "mat_append", "mat_geom", "mat_vmorphs",
     "mat_settings", "merge_morphs", "merge_physics", "phys_append_joints",
     "phys_update_rigids", "phys_update_joints", "merge_display", "save"}

\* The names of a collection, in order
NamesOf(coll) == [i \in DOMAIN coll |-> coll[i].name]

\* A file with an unnamed element or a repeated name in one of its six
\* named collections
HasBadNames(file) ==
    /\ file.kind = "pmx"
    /\ \E c \in Collections :
          \/ \E i \in DOMAIN file[c] : file[c][i].name = ""
          \/ \E i, j \in DOMAIN file[c] : i # j /\ file[c][i].name = file[c][j].name

BadOperand ==
    \/ args.path_base \in Paths /\ HasBadNames(fs0[args.path_base])
    \/ args.path_patch \in Paths /\ HasBadNames(fs0[args.path_patch])

\* C1: when the base or the patch document has two elements of the same name
\* or an unnamed element in one of its named collections, merge_pmx_files
\* never enters merge_models, leaves base as loaded, never opens a file for
\* writing, leaves every file as it was, and ends by returning (False, ...).
C1_ValidationGate ==
    BadOperand =>
        /\ pc \notin MergeSteps
        /\ pre = NoModel
        /\ base = NoModel \/ base = load_pmx_file(fs0, args.path_base, "B")
        /\ opened = {}
        /\ fs = fs0
        /\ pc = "done" => (ret.kind = "return" /\ ret.ok = FALSE)

\* C1 witness: a call that loaded both files and was refused at the
\* validation of a patch with a repeated name
C1_Witness ==
    /\ pc = "done"
    /\ ret = Returned(FALSE, "patch model has duplicate elements")
    /\ \E c \in Collections : \E i, j \in DOMAIN fs0[PPatch][c] :
          i # j /\ fs0[PPatch][c][i].name = fs0[PPatch][c][j].name

\* C2: merge_pmx_files never ends with an exception; every failure is a
\* returned (False, message).
C2_NoExceptionEscapes == ret.kind # "raise"

\* Every patch element of the collection has its name in base's collection
AllNamesPresent(b, p) == \A i \in DOMAIN p : Contains(b, p[i].name)

\* C3: whatever the append set, after merge_models every patch bone and
\* every patch material has its name in base.
C3_BonesAndMaterialsAlwaysAppended ==
    AfterMaterials =>
        /\ AllNamesPresent(base.bones, patch.bones)
        /\ AllNamesPresent(base.materials, patch.materials)

\* C4: with append = {'BONE'} and update = {} the bones base had keep their
\* positions and every field, and the bones added behind them are exactly the
\* patch bones whose names base did not have, in patch order.
C4_AppendOnlyBones ==
    (AfterBones /\ args.append = {"BONE"} /\ args.update = {}) =>
        base.bones =
            pre.bones \o SelectSeq(patch.bones, LAMBDA x : ~Contains(pre.bones, x.name))

\* C4 witness: such a merge that appended a bone and skipped another
C4_Witness ==
    /\ pc = "done" /\ AfterBones
    /\ args.append = {"BONE"} /\ args.update = {}
    /\ Len(base.bones) > Len(pre.bones)
    /\ \E i \in DOMAIN patch.bones : Contains(pre.bones, patch.bones[i].name)

\* C5: with MAT_SETTING and without MAT_GEOM in update, every material base
\* had before the merge has the face list it had before the merge.
C5_SettingsKeepGeometry ==
    (AfterMaterials /\ "MAT_SETTING" \in args.update /\ "MAT_GEOM" \notin args.update) =>
        \A i \in DOMAIN pre.materials :
            /\ i \in DOMAIN base.materials
            /\ base.materials[i].faces = pre.materials[i].faces

SavedBone(file, name) == file.bones[CachePos(file.bones, name)]

\* C7: with BONE_LOC in update, the file saved has, for every bone name base
\* and patch share, the patch bone's location and the patch bone's display
\* connection: its type and its offset vector or, for a connection to a
\* bone, the index of the bone the patch connects to.
C7_SavedDisplayConnection ==
    (pc = "done" /\ ret.kind = "return" /\ ret.ok /\ "BONE_LOC" \in args.update) =>
        \A i \in DOMAIN patch.bones :
            Contains(pre.bones, patch.bones[i].name) =>
                LET saved == SavedBone(fs[path_out], patch.bones[i].name)
                    pb == patch.bones[i]
                IN /\ saved.location = pb.location
                   /\ saved.disp_connection_type = pb.disp_connection_type
                   /\ saved.disp_connection_vector = pb.disp_connection_vector
                   /\ pb.disp_connection_type = 1 =>
                        saved.disp_connection_bone_index =
                            Index(base.bones, pb.disp_conection_bone_index)

\* location and the display connection: its type, target and offset vector
SpatialAttributes == BoneLocAttributes \cup {"disp_conection_bone_index"}

\* The bones base had before the merge differ from what they were in no
\* attribute outside `allowed`
BonesChangeOnly(allowed) ==
    \A i \in DOMAIN pre.bones :
        /\ i \in DOMAIN base.bones
        /\ \A f \in DOMAIN pre.bones[i] \ allowed : base.bones[i][f] = pre.bones[i][f]

\* The bones base had before the merge have the attributes `kept` as they were
BonesKeep(kept) ==
    \A i \in DOMAIN pre.bones :
        /\ i \in DOMAIN base.bones
        /\ \A f \in kept : base.bones[i][f] = pre.bones[i][f]

\* C8 as claimed: with update = {'BONE_LOC'} no attribute of a base bone
\* other than location and the display connection changes, and with
\* update = {'BONE_SETTING'} those attributes do not change.
C8_Original ==
    AfterBones =>
        /\ args.update = {"BONE_LOC"} => BonesChangeOnly(SpatialAttributes)
        /\ args.update = {"BONE_SETTING"} =>
              BonesKeep(SpatialAttributes)

\* C8 as amended: with update = {'BONE_LOC'} no attribute of a base bone
\* other than name_e, location and the display connection changes, and with
\* update = {'BONE_SETTING'} location and the display connection do not
\* change.
C8_LocAndSettingIndependent ==
    AfterBones =>
        /\ args.update = {"BONE_LOC"} =>
              BonesChangeOnly(SpatialAttributes \cup {"name_e"})
        /\ args.update = {"BONE_SETTING"} =>
              BonesKeep(SpatialAttributes)

\* C8 witness: a BONE_LOC-only merge that moved a base bone
C8_Witness ==
    /\ pc = "done" /\ AfterBones
    /\ args.update = {"BONE_LOC"}
    /\ \E i \in DOMAIN pre.bones : base.bones[i].location # pre.bones[i].location

\* C9: with BONE_SETTING in update, every attribute of a name-matching base
\* bone other than its names, location and display connection has the patch
\* bone's value after the merge.
C9_SettingCopiesEveryStructuralField ==
    (AfterBones /\ "BONE_SETTING" \in args.update) =>
        \A i \in DOMAIN patch.bones :
            Contains(pre.bones, patch.bones[i].name) =>
                \A f \in DOMAIN patch.bones[i] \ (SpatialAttributes \cup {"name", "name_e"}) :
                    GetByName(base.bones, patch.bones[i].name)[f] = patch.bones[i][f]

\* Every vertex of patch is in base's vertex list
PatchVerticesPresent == \A k \in DOMAIN patch.vertices : HasVertex(base, patch.vertices[k].id)

\* C10: when MATERIAL is appended or MAT_GEOM updated, base's materials
\* differ from what they were only once all patch vertices are in base's
\* vertex list; and after the material merge with MAT_GEOM in update a
\* material base had has the faces of the patch material of its name, or
\* the faces it had when no patch material has its name.
C10_VerticesFirstAndFacesReplaced ==
    /\ (pc \in MergeSteps /\ base.materials # pre.materials
        /\ ("MATERIAL" \in args.append \/ "MAT_GEOM" \in args.update))
            => PatchVerticesPresent
    /\ (AfterMaterials /\ "MAT_GEOM" \in args.update) =>
        \A i \in DOMAIN pre.materials :
            /\ i \in DOMAIN base.materials
            /\ base.materials[i].name = pre.materials[i].name
            /\ base.materials[i].faces =
                  IF Contains(patch.materials, pre.materials[i].name)
                  THEN GetByName(patch.materials, pre.materials[i].name).faces
                  ELSE pre.materials[i].faces

\* C10 witness: a merge with MAT_GEOM that replaced a non-empty face list by
\* another non-empty face list and left a material without a match alone
C10_Witness ==
    /\ pc = "save" /\ "MAT_GEOM" \in args.update
    /\ PatchVerticesPresent
    /\ \E i \in DOMAIN pre.materials :
          /\ Contains(patch.materials, pre.materials[i].name)
          /\ pre.materials[i].faces # << >>
          /\ base.materials[i].faces # << >>
          /\ base.materials[i].faces # pre.materials[i].faces
    /\ \E i \in DOMAIN pre.materials :
          /\ ~Contains(patch.materials, pre.materials[i].name)
          /\ pre.materials[i].faces # << >>

\* The vertex/UV morph merge of append_update_material has just run
AfterVertexMorphMerge == pc = "mat_settings"

\* C11: right after the vertex/UV morph merge, a patch vertex/UV morph whose
\* name base did not have stands behind the morphs base had; one whose name
\* base had stands at the position of that base morph, as the base morph with
\* the patch offsets behind its own when both have the same type discriminant
\* (vertex, or the same UV channel), and as the patch morph otherwise.
C11_VertexMorphMerge ==
    AfterVertexMorphMerge =>
        \A k \in DOMAIN patch.morphs :
            LET morph == patch.morphs[k] IN
            IsVertexOrUV(morph) =>
                IF ~Contains(pre.morphs, morph.name)
                THEN /\ Contains(base.morphs, morph.name)
                     /\ CachePos(base.morphs, morph.name) > Len(pre.morphs)
                     /\ GetByName(base.morphs, morph.name) = morph
                ELSE LET i == CachePos(pre.morphs, morph.name)
                         base_morph == pre.morphs[i]
                     IN base.morphs[i] =
                            IF base_morph.type_index = morph.type_index
                            THEN [base_morph EXCEPT !.offsets = @ \o morph.offsets]
                            ELSE morph

\* append_update_displayitems has run
AfterDisplay == pre # NoModel /\ pc \in {"save", "done", "reloaded"}

\* The items of a patch slot that the base slot does not have, by value
NewItemsByValue(base_items, patch_items) ==
    SelectSeq(patch_items, LAMBDA it : it \notin Range(base_items))

\* The patch slots whose names base did not have, in patch order
NewSlots == SelectSeq(patch.display_slots, LAMBDA d : ~Contains(pre.display_slots, d.name))

\* C12: after the display merge with DISPLAY in append, the patch slots of
\* new names stand behind the slots base had, and (DISPLAY not in update) a
\* base slot with a patch namesake has, behind its own items, the items of
\* the patch slot it did not have with the same kind and name; with DISPLAY
\* in update a base slot with a patch namesake is the patch slot.
C12_DisplayMerge ==
    AfterDisplay =>
        /\ "DISPLAY" \in args.append =>
              base.display_slots =
                  SubSeq(base.display_slots, 1, Len(pre.display_slots)) \o NewSlots
        /\ \A i \in DOMAIN pre.display_slots :
              LET old == pre.display_slots[i] IN
              /\ i \in DOMAIN base.display_slots
              /\ Contains(patch.display_slots, old.name) =>
                    LET slot == GetByName(patch.display_slots, old.name) IN
                    /\ "DISPLAY" \in args.update => base.display_slots[i] = slot
                    /\ ("DISPLAY" \in args.append /\ "DISPLAY" \notin args.update) =>
                          base.display_slots[i] =
                              [old EXCEPT !.items = @ \o NewItemsByValue(@, slot.items)]

\* The patch morph of the given name when it is a bone, material or group
\* morph
HasStructuralMorph(name) ==
    \E k \in DOMAIN patch.morphs :
        patch.morphs[k].name = name /\ ~IsVertexOrUV(patch.morphs[k])

\* What the claim expects of append_update_morphs on the morph list `old`
ExpectedMorphs(old) ==
    LET replaced ==
            [i \in DOMAIN old |->
                IF "MORPH" \in args.update /\ HasStructuralMorph(old[i].name)
                THEN GetByName(patch.morphs, old[i].name)
                ELSE old[i]]
        added ==
            IF "MORPH" \in args.append
            THEN SelectSeq(patch.morphs,
                           LAMBDA m : ~IsVertexOrUV(m) /\ ~Contains(old, m.name))
            ELSE << >>
    IN replaced \o added

AfterPhysics == pre # NoModel /\ pc \in {"merge_display", "save", "done", "reloaded"}

\* The list `old` with, when doUpdate, the elements that have a namesake in
\* `items` replaced by it and, when doAppend, the elements of `items` with
\* new names behind, in the order of `items`
ExpectedNamed(old, items, doAppend, doUpdate) ==
    LET replaced ==
            [i \in DOMAIN old |->
                IF doUpdate /\ Contains(items, old[i].name)
                THEN GetByName(items, old[i].name) ELSE old[i]]
        added ==
            IF doAppend THEN SelectSeq(items, LAMBDA x : ~Contains(old, x.name))
            ELSE << >>
    IN replaced \o added

\* All patch rigid bodies of new names are in base
NewRigidsAppended ==
    \A k \in DOMAIN patch.rigids : Contains(base.rigids, patch.rigids[k].name)

\* All base rigid bodies with a patch namesake are the patch rigid body
SameRigidsReplaced ==
    \A i \in DOMAIN pre.rigids :
        Contains(patch.rigids, pre.rigids[i].name) =>
            base.rigids[i] = GetByName(patch.rigids, pre.rigids[i].name)

\* C14: during and after merge_models, a joint has been appended to base
\* only when all new-named patch rigid bodies are already in base, and a
\* joint base had has been replaced only when all same-named rigid bodies
\* are already replaced; after append_update_physics the rigid bodies and
\* joints are those base had, replaced at their positions by their patch
\* namesakes when PHYSICS is in update, followed by the patch elements of new
\* names when PHYSICS is in append; without PHYSICS in either set rigid bodies
\* and joints stay as they were.
C14_PhysicsMerge ==
    AfterBones =>
        /\ Len(base.joints) > Len(pre.joints) => NewRigidsAppended
        /\ (\E i \in DOMAIN pre.joints : base.joints[i] # pre.joints[i]) => SameRigidsReplaced
        /\ AfterPhysics =>
              /\ base.rigids = ExpectedNamed(pre.rigids, patch.rigids,
                                             "PHYSICS" \in args.append,
                                             "PHYSICS" \in args.update)
              /\ base.joints = ExpectedNamed(pre.joints, patch.joints,
                                             "PHYSICS" \in args.append,
                                             "PHYSICS" \in args.update)
        /\ PhysicsMergeSkipped(args.append, args.update) =>
              base.rigids = pre.rigids /\ base.joints = pre.joints

\* C14 witness: a merge with PHYSICS in both sets that appended a rigid body
\* and a joint and replaced a rigid body and a joint
C14_Witness ==
    /\ pc = "merge_display"
    /\ "PHYSICS" \in args.append /\ "PHYSICS" \in args.update
    /\ Len(base.rigids) > Len(pre.rigids)
    /\ Len(base.joints) > Len(pre.joints)
    /\ \E i \in DOMAIN pre.rigids : base.rigids[i] # pre.rigids[i]
    /\ \E i \in DOMAIN pre.joints : base.joints[i] # pre.joints[i]

\* The names of a collection are non-empty and pairwise different
UniqueNames(coll) ==
    /\ \A i \in DOMAIN coll : coll[i].name # ""
    /\ \A i, j \in DOMAIN coll : i # j => coll[i].name # coll[j].name

\* C15: when the base and the patch document have unique, non-empty names in
\* each of their six named collections, base has unique, non-empty names in
\* each of the six collections during and after merge_models, for every
\* append set and every update set.
C15_MergeKeepsNamesUnique ==
    (~BadOperand /\ AfterBones) => \A c \in Collections : UniqueNames(base[c])

\* C15 witness: a merge with appends and updates that is through and has
\* added an element to a collection
C15_Witness ==
    /\ pc = "save"
    /\ ~BadOperand
    /\ args.append # {} /\ args.update # {}
    /\ \E c \in Collections : Len(base[c]) > Len(pre[c])
    /\ \E c \in Collections : \E i \in DOMAIN pre[c] : base[c][i] # pre[c][i]

\* C16: after a call of append, insert or extend with an element whose name
\* is empty or is the name of an element the collection had, the call has
\* raised an error and the list and its name cache are as they were.
C16_AddValidatesUniqueness ==
    (/\ call.op \in {"append", "insert", "extend"}
     /\ \E i \in DOMAIN call.items :
           \/ call.items[i].name = ""
           \/ \E k \in DOMAIN call.before.items :
                 call.before.items[k].name = call.items[i].name)
        => (err # NoError /\ elements = call.before)

\* The caller has loaded the file a successful merge_pmx_files wrote
Reloaded == pc = "reloaded"

\* The element of coll a reference by name points at: the name, or None when
\* coll has no element of that name
Target(coll, ref) == IF Contains(coll, ref) THEN ref ELSE None

\* The references of morph offsets of r point at what those of m point at
SameMorphTargets(m, r) ==
    \A i \in DOMAIN m.morphs :
        /\ Len(r.morphs[i].offsets) = Len(m.morphs[i].offsets)
        /\ \A k \in DOMAIN m.morphs[i].offsets :
              LET o == m.morphs[i].offsets[k]
                  q == r.morphs[i].offsets[k]
              IN CASE m.morphs[i].type_index = 0 -> q.morph = Target(m.morphs, o.morph)
                   [] m.morphs[i].type_index = 2 -> q.bone = Target(m.bones, o.bone)
                   [] m.morphs[i].type_index = 8 ->
                        q.material = Target(m.materials, o.material)
                   [] OTHER -> TRUE

\* The references between the elements of r point at what those of m point at
SameTargets(m, r) ==
    /\ \A i \in DOMAIN m.bones :
          /\ r.bones[i].parent = Target(m.bones, m.bones[i].parent)
          /\ m.bones[i].is_ik =>
                /\ r.bones[i].ik_target = Target(m.bones, m.bones[i].ik_target)
                /\ Len(r.bones[i].ik_links) = Len(m.bones[i].ik_links)
                /\ \A k \in DOMAIN m.bones[i].ik_links :
                      r.bones[i].ik_links[k].target =
                          Target(m.bones, m.bones[i].ik_links[k].target)
    /\ \A k \in DOMAIN m.vertices : \A i \in DOMAIN m.vertices[k].bones :
          r.vertices[k].bones[i] = Target(m.bones, m.vertices[k].bones[i])
    /\ SameMorphTargets(m, r)
    /\ \A i \in DOMAIN m.display_slots :
          /\ Len(r.display_slots[i].items) = Len(m.display_slots[i].items)
          /\ \A k \in DOMAIN m.display_slots[i].items :
                r.display_slots[i].items[k] = m.display_slots[i].items[k]
    /\ \A i \in DOMAIN m.rigids : r.rigids[i].bone = Target(m.bones, m.rigids[i].bone)
    /\ \A i \in DOMAIN m.joints :
          /\ r.joints[i].src_rigid = Target(m.rigids, m.joints[i].src_rigid)
          /\ r.joints[i].dst_rigid = Target(m.rigids, m.joints[i].dst_rigid)

\* C17: the model loaded from the file that save wrote for M has as many
\* vertices as M after its purge, the materials of M in their order with as
\* many faces each, the bone, material and morph names of M in their order,
\* and every reference between elements pointing at the element of the same
\* name as in M.
C17_RoundTrip ==
    Reloaded =>
        /\ reloaded.kind = "model"
        /\ Len(reloaded.vertices) = Len(base.vertices)
        /\ NamesOf(reloaded.materials) = NamesOf(base.materials)
        /\ \A i \in DOMAIN base.materials :
              Len(reloaded.materials[i].faces) = Len(base.materials[i].faces)
        /\ NamesOf(reloaded.bones) = NamesOf(base.bones)
        /\ NamesOf(reloaded.morphs) = NamesOf(base.morphs)
        /\ Len(reloaded.display_slots) = Len(base.display_slots)
        /\ Len(reloaded.rigids) = Len(base.rigids)
        /\ Len(reloaded.joints) = Len(base.joints)
        /\ SameTargets(base, reloaded)

\* Some face of some material of m references the vertex
UsedByAFace(m, vid) ==
    \E i \in DOMAIN m.materials : \E k \in DOMAIN m.materials[i].faces :
        \E c \in 1..3 : m.materials[i].faces[k].verts[c] = vid

\* The vertices of m that a face references, in their order
Survivors(m) == SelectSeq(m.vertices, LAMBDA v : UsedByAFace(m, v.id))

\* The coordinates of the vertex of m with the given identity
CoOf(m, vid) == (CHOOSE v \in Range(m.vertices) : v.id = vid).co

\* C18: the model loaded from the file that save wrote for M has exactly the
\* vertices of M that a material face referenced at save time, in their
\* order, and each of its vertex/UV morphs has exactly the offsets the morph
\* had in M on those vertices, in their order and on the same vertices.
C18_VertexPurge ==
    (Reloaded /\ reloaded.kind = "model") =>
        /\ [k \in DOMAIN reloaded.vertices |-> reloaded.vertices[k].co]
              = [k \in DOMAIN Survivors(at_save) |-> Survivors(at_save)[k].co]
        /\ \A i \in DOMAIN at_save.morphs :
              IsVertexOrUV(at_save.morphs[i]) =>
                  LET kept == SelectSeq(at_save.morphs[i].offsets,
                                        LAMBDA o : UsedByAFace(at_save, o.vertex))
                      got == reloaded.morphs[i].offsets
                  IN /\ Len(got) = Len(kept)
                     /\ \A k \in DOMAIN kept :
                           /\ got[k].offset = kept[k].offset
                           /\ reloaded.vertices[got[k].vertex[2]].co
                                 = CoOf(at_save, kept[k].vertex)

\* C18 witness: a reload after a save that removed an unused vertex from
\* between used ones and, from one morph, an offset on a removed vertex while
\* keeping an offset on a used one
C18_Witness ==
    /\ Reloaded /\ reloaded.kind = "model"
    /\ \E j, k \in DOMAIN at_save.vertices :
          /\ j < k
          /\ ~UsedByAFace(at_save, at_save.vertices[j].id)
          /\ UsedByAFace(at_save, at_save.vertices[k].id)
    /\ \E i \in DOMAIN at_save.morphs :
          /\ IsVertexOrUV(at_save.morphs[i])
          /\ \E k \in DOMAIN at_save.morphs[i].offsets :
                ~UsedByAFace(at_save, at_save.morphs[i].offsets[k].vertex)
          /\ \E k \in DOMAIN at_save.morphs[i].offsets :
                UsedByAFace(at_save, at_save.morphs[i].offsets[k].vertex)

\* The width the rule gives a collection of n elements
RuleWidth(n, unsigned) ==
    IF unsigned
    THEN IF n < 256 THEN 1 ELSE IF n < 65536 THEN 2 ELSE 4
    ELSE IF n < 128 THEN 1 ELSE IF n < 32768 THEN 2 ELSE 4

\* C19: the header of a stream, when written and when read back, has for the
\* vertex index the width of the unsigned rule (1 below 256, 2 below 65536,
\* else 4) and for the texture, material, bone, morph and rigid index the
\* width of the signed rule (1 below 128, 2 below 32768, else 4).
C19_IndexWidths ==
    io.kind \in {"write", "read"} =>
        /\ io.header.vertex = RuleWidth(io.counts.vertex, TRUE)
        /\ \A c \in NamedCategories : io.header[c] = RuleWidth(io.counts[c], FALSE)

\* C19 witness: a header for 255 vertices and 128 elements in each named
\* collection, where the two rules differ
C19_Witness ==
    /\ io.kind = "read"
    /\ io.counts.vertex = 255 /\ io.header.vertex = 1
    /\ io.counts.bone = 128 /\ io.header.bone = 2

\* Every index read back equals the index written at its place
IndicesReadBack ==
    io.kind = "read" =>
        \A k \in DOMAIN io.got : io.got[k] = io.log[k].index

\* The widths the claim lists for 127 .. 65536 named elements
ListedWidth(n) ==
    CASE n = 127 -> 1 [] n = 128 -> 1 [] n = 255 -> 1 [] n = 256 -> 2
      [] n = 32767 -> 2 [] n = 32768 -> 4 [] n = 65535 -> 2 [] n = 65536 -> 4

\* The widths of the signed rule for 127 .. 65536 named elements
SignedWidth(n) ==
    CASE n = 127 -> 1 [] n = 128 -> 2 [] n = 255 -> 2 [] n = 256 -> 2
      [] n = 32767 -> 2 [] n = 32768 -> 4 [] n = 65535 -> 4 [] n = 65536 -> 4

\* C20 as stated: named collections of 127, 128, 255, 256, 32767, 32768,
\* 65535, 65536 elements select the widths 1, 1, 1, 2, 2, 4, 2, 4 and every
\* index written is read back equal.
C20_Original ==
    /\ io.kind \in {"write", "read"} =>
          \A c \in NamedCategories : io.header[c] = ListedWidth(io.counts[c])
    /\ IndicesReadBack

\* C20 amended: named collections of 127, 128, 255, 256, 32767, 32768, 65535,
\* 65536 elements select the widths 1, 2, 2, 2, 2, 4, 4, 4 and every index
\* written is read back equal.
C20_BoundaryWidths ==
    /\ io.kind \in {"write", "read"} =>
          \A c \in NamedCategories : io.header[c] = SignedWidth(io.counts[c])
    /\ IndicesReadBack

\* C20 witness: a document with 128 named elements per collection whose last
\* index, 127, and whose absent reference, -1, have both been read back
C20_Witness ==
    /\ io.kind = "read" /\ io.counts.bone = 128 /\ Len(io.got) = 2
    /\ io.log[1] = [cat |-> "bone", index |-> 127] /\ io.got[1] = 127
    /\ io.log[2] = [cat |-> "morph", index |-> -1] /\ io.got[2] = -1

\* pypmx.load has just returned the base model
BaseLoaded == pc = "validate_base" /\ base # NoModel

\* The faces of the materials, one run after the other in material order
RECURSIVE FacesInOrder(_)
FacesInOrder(mats) ==
    IF mats = << >> THEN << >> ELSE Head(mats).faces \o FacesInOrder(Tail(mats))

\* C21: right after the load of an accepted file, the materials hold 3 face
\* indices for each face index the file declares (three per face of its face
\* stream), and their faces, taken in material order, are the face stream.
C21_FacePartition ==
    BaseLoaded =>
        LET doc == fs0[args.path_base] IN
        /\ Len(FacesInOrder(base.materials)) * 3 = Len(doc.faces) * 3
        /\ FacesInOrder(base.materials)
              = [k \in DOMAIN doc.faces |-> LoadFace(doc, "B", k)]

\* The name, the mode and both rigid-body references of the joint record
\* were read before the data ended
RequiredRead(j) == {"name", "mode", "src_index", "dst_index"} \subseteq DOMAIN j

\* C22: when the data of the base file ends inside its joint section, the
\* load succeeds exactly when each joint that ran into the end had its name,
\* mode and both rigid-body references read before, and the vectors that
\* were not read are then the (0, 0, 0) defaults.
C22_JointTruncation ==
    LET doc == fs0[args.path_base]
        cut == {i \in DOMAIN doc.joints : JointTruncated(doc.joints[i])}
    IN (pc \notin {"start", "load_base"} /\ cut # {}) =>
          /\ base # NoModel <=> \A i \in cut : RequiredRead(doc.joints[i])
          /\ BaseLoaded => \A i \in cut : base.joints[i].payload = ZeroVectors

\* load has ended for the file it was given: it returned or it raised
LoadEnded == io.kind = "load" /\ io.at = "closed"

\* C23: when load has ended, a file whose signature is not 'PMX ' was
\* rejected with InvalidFileError whatever its version, a file with the right
\* signature and a version other than 2.0 with UnsupportedVersionError, a
\* file with the right signature and version and a header-length byte other
\* than 8 with InvalidFileError, and no Model was returned in these cases.
C23_HeaderRejection ==
    LoadEnded =>
        LET f == io.file IN
        /\ f.sign # PMX_SIGN =>
              err = "InvalidFileError" /\ io.result = "none"
        /\ (f.sign = PMX_SIGN /\ f.version # VERSION) =>
              err = "UnsupportedVersionError" /\ io.result = "none"
        /\ (f.sign = PMX_SIGN /\ f.version = VERSION /\ f.hlen # 8) =>
              err = "InvalidFileError" /\ io.result = "none"

\* pypmx.load has just returned the patch model
PatchLoaded == pc = "validate_patch" /\ patch # NoModel

\* The name a reference read as index must have: that of the element at the
\* index in the complete collection of the file, None outside the collection
NameAt(coll, index) ==
    IF index \in 0..(Len(coll) - 1) THEN coll[index + 1].name ELSE None

\* C24: right after the load of the patch file every reference holds the name
\* of the element its index designates in the completely loaded collection,
\* also when that element comes later in the file: the bone references of
\* bones and of vertex weights and the sub-morph references of group morphs.
C24_ForwardReferences ==
    PatchLoaded =>
        LET doc == fs0[args.path_patch] IN
        /\ \A i \in DOMAIN doc.bones :
              /\ patch.bones[i].parent = NameAt(doc.bones, doc.bones[i].parent_index)
              /\ patch.bones[i].add_trans_bone
                    = NameAt(doc.bones, doc.bones[i].add_trans_bone_index)
              /\ \A k \in DOMAIN doc.bones[i].ik_links :
                    patch.bones[i].ik_links[k].target
                        = NameAt(doc.bones, doc.bones[i].ik_links[k].target_index)
        /\ \A v \in DOMAIN doc.vertices : \A k \in DOMAIN doc.vertices[v].bone_indices :
              patch.vertices[v].bones[k]
                  = NameAt(doc.bones, doc.vertices[v].bone_indices[k])
        /\ \A i \in DOMAIN doc.morphs :
              doc.morphs[i].type_index = 0 =>
                  \A k \in DOMAIN doc.morphs[i].offsets :
                      patch.morphs[i].offsets[k].morph
                          = NameAt(doc.morphs, doc.morphs[i].offsets[k].index)

\* C25: in a file that save has written, the index widths of the header are
\* those of the cardinalities the collections have after the purge of the
\* unused textures and vertices, the cardinalities the file holds.
C25_WidthsAfterPurge ==
    (io.kind = "save" /\ io.at = "closed") =>
        HeaderOfBytes(SubSeq(io.data, 1, 6)) = updateIndexSizes(io.counts)

\* C26: the name cache of the collection is exactly the map from the name of
\* each element of the list to the position of that element and the element
\* itself: every element has its entry, every entry is an element at its
\* position, and a name has one entry.
C26_CacheIsTheList ==
    LET items == elements.items
        cache == elements.cache
    IN /\ \A i \in DOMAIN items :
             [name |-> items[i].name, idx |-> i - 1, item |-> items[i]] \in cache
       /\ \A e \in cache :
             /\ e.idx + 1 \in DOMAIN items
             /\ items[e.idx + 1] = e.item
             /\ e.item.name = e.name
       /\ \A e1, e2 \in cache : e1.name = e2.name => e1 = e2

\* C27: when merge_models has returned, every vertex that a face of a
\* material of base or an offset of a vertex/UV morph of base references is
\* in the vertex list of base, and the save that follows on a writable path
\* does not fail.
C27_MergedVerticesInBase ==
    /\ pc = "save" =>
          /\ \A i \in DOMAIN base.materials : \A k \in DOMAIN base.materials[i].faces :
                \A c \in 1..3 : HasVertex(base, base.materials[i].faces[k].verts[c])
          /\ \A i \in DOMAIN base.morphs :
                IsVertexOrUV(base.morphs[i]) =>
                    \A k \in DOMAIN base.morphs[i].offsets :
                        HasVertex(base, base.morphs[i].offsets[k].vertex)
    /\ (pc = "done" /\ at_save # NoModel /\ path_out \in writable) => ret.kind = "return"

\* The value is an unsigned, or a signed two's complement, integer of w bytes
\* (every integer of the model is below 2^31)
FitsWidth(index, w, signed) ==
    CASE w = 1 -> IF signed THEN -128 <= index /\ index <= 127
                  ELSE 0 <= index /\ index <= 255
      [] w = 2 -> IF signed THEN -32768 <= index /\ index <= 32767
                  ELSE 0 <= index /\ index <= 65535
      [] w = 4 -> signed \/ 0 <= index
      [] OTHER -> FALSE

\* C28: while save writes a file and when it has written it, no index write
\* has failed, and every index written fits the width the header of the file
\* declares for its category: the vertex indices as unsigned integers, the
\* texture, material, bone, morph and rigid-body indices, -1 included, as
\* signed ones.
C28_IndicesFitWidths ==
    io.kind = "save" =>
        /\ err = NoError
        /\ \A k \in DOMAIN io.log :
              FitsWidth(io.log[k].index,
                        HeaderOfBytes(SubSeq(io.data, 1, 6))[io.log[k].cat],
                        io.log[k].cat # "vertex")

\* C28 witness: a written file with 255 vertices and a one-byte vertex width
\* in which the last vertex index, 254, and an absent bone reference, -1,
\* were written
C28_Witness ==
    /\ io.kind = "save" /\ io.at = "closed"
    /\ io.data[1] = 1
    /\ io.log = <<[cat |-> "vertex", index |-> 254], [cat |-> "bone", index |-> -1]>>

\* C29: whenever merge_pmx_files has ended without success, by returning
\* False or by an error that escapes it, the file at path_out has the content
\* it had before the call (so the base file is intact when path_out is
\* path_base).
C29_OutputIntactOnFailure ==
    (pc = "done" /\ ~(ret.kind = "return" /\ ret.ok)) =>
        (path_out \in DOMAIN fs => fs[path_out] = fs0[path_out])

\* C30: the step append_update_morphs never adds, replaces or removes a
\* vertex or UV morph of base: every vertex/UV morph base holds before the
\* step is at the same position of base's morph list, the same morph with
\* the same offsets, after it.
C30_MorphStepKeepsVertexMorphs ==
    [][pc = "merge_morphs" =>
          \A i \in DOMAIN base.morphs :
              IsVertexOrUV(base.morphs[i]) =>
                  /\ i \in DOMAIN base'.morphs
                  /\ base'.morphs[i] = base.morphs[i]]_vars

====
